---- MODULE Spec2Model ----
(***************************************************************************)
(* Block-cave fragmentation engine (velimier/BCF): the secondary breakage  *)
(* simulator, the primary block generator, the spacing sampler, the        *)
(* binning statistics, the hang-up estimators and the Monte Carlo fan-out. *)
(*                                                                         *)
(* Python floats are modelled as exact rationals <<n, d>> (d > 0, lowest   *)
(* terms).  Transcendental factors (exp, log) are drawn from finite sets   *)
(* of values the expression can take.  A seeded random.Random is a stream  *)
(* of draws; each r.random() is a value of URand, a subset of [0, 1).      *)
(***************************************************************************)
EXTENDS Integers, Sequences, FiniteSets, TLC

(***************************************************************************)
(* Exact arithmetic for the float fields (V, Omega, z, ...).               *)
(***************************************************************************)
Abs(x) == IF x < 0 THEN -x ELSE x

RECURSIVE Gcd(_, _)
Gcd(a, b) == IF b = 0 THEN a ELSE Gcd(b, a % b)

Rat(n, d) ==
    LET s == IF d < 0 THEN -1 ELSE 1
        g == Gcd(Abs(n), Abs(d))
    IN  <<(s * n) \div g, (s * d) \div g>>

RInt(k) == <<k, 1>>
\* Sums and products cancel common factors before they multiply.
RAdd(x, y) ==
    LET g == Gcd(x[2], y[2])
    IN  Rat(x[1] * (y[2] \div g) + y[1] * (x[2] \div g), (x[2] \div g) * y[2])
RNeg(x) == <<-x[1], x[2]>>
RSub(x, y) == RAdd(x, RNeg(y))
RMul(x, y) ==
    LET g1 == Gcd(Abs(x[1]), y[2])
        g2 == Gcd(Abs(y[1]), x[2])
    IN  Rat((x[1] \div g1) * (y[1] \div g2), (x[2] \div g2) * (y[2] \div g1))
RDiv(x, y) == RMul(x, Rat(y[2], y[1]))
\* The order of a/b and c/d (b, d > 0) as -1, 0 or 1, by integer parts and
\* then the reciprocals of the fractional parts.
RECURSIVE RCmp(_, _, _, _)
RCmp(a, b, c, d) ==
    LET qa == a \div b
        qc == c \div d
        ra == a % b
        rc == c % d
    IN  IF qa < qc THEN -1
        ELSE IF qa > qc THEN 1
        ELSE IF ra = 0 /\ rc = 0 THEN 0
        ELSE IF ra = 0 THEN -1
        ELSE IF rc = 0 THEN 1
        ELSE RCmp(d, rc, b, ra)
RLe(x, y) == RCmp(x[1], x[2], y[1], y[2]) <= 0
RLt(x, y) == RCmp(x[1], x[2], y[1], y[2]) < 0
RMax(x, y) == IF RLe(x, y) THEN y ELSE x
RMin(x, y) == IF RLe(x, y) THEN x ELSE y

RECURSIVE RSum(_)
RSum(s) == IF s = <<>> THEN RInt(0) ELSE RAdd(Head(s), RSum(Tail(s)))

\* All the values of a sequence, as a set.
Range(s) == {s[i] : i \in DOMAIN s}

Zero == RInt(0)
One == RInt(1)
Half == Rat(1, 2)

(***************************************************************************)
(* State.  One group of variables per engine call that is modelled.        *)
(***************************************************************************)
VARIABLES
    \* run_secondary (src/engine/secondary.py)
    sec_pc,         \* position in run_secondary
    sec_prim,       \* prim_blocks, the input list
    sec_cfg,        \* draw_height, mu_scatter_deg, cushioning fines, arching_pct
    sec_i,          \* number of primary blocks taken by the for loop
    sec_stack,      \* stack: entries (V, Omega, J, z)
    sec_out,        \* out: the secondary blocks
    sec_fines,      \* sec_fines_mass
    sec_sh,         \* position of the shuffle's swap loop
    sec_nsplit,     \* blocks split by the arching post-process
    sec_ratio,      \* secondary_fines_ratio, as returned
    \* sample_spacing (src/engine/distributions.py)
    ss_pc,          \* position in sample_spacing and the sampler it calls
    ss_dist,        \* dist, as given
    ss_lo,          \* lo, after line 38
    ss_m,           \* m, after lines 39-44
    ss_hi,          \* hi, after lines 40-42
    ss_cap,         \* max_obs of sample_lognormal_capped
    ss_tries,       \* iterations done by the trunc_exp for loop
    ss_rng,         \* state of rng (position in its cycle)
    ss_draws,       \* values taken from rng by this call
    ss_ret,         \* the returned value
    \* generate_primary_blocks (src/engine/primary.py)
    gp_pc,          \* position in generate_primary_blocks
    gp_in,          \* n_blocks, rock, joints, cave
    gp_sets,        \* all_sets
    gp_idxs,        \* idxs of the block being built
    gp_perm,        \* for each sorted dimension, the position in chosen of
                    \* the set it was sampled from
    gp_dims0,       \* the list [a, b, c] given to zip: the sorted samples
    gp_dims,        \* a, b, c
    gp_k,           \* iteration of the loop over zip(chosen, [a, b, c])
    gp_ji,          \* joints_inside
    gp_log,         \* the extensions applied to the block being built
    gp_blocks,      \* blocks
    gp_rng,         \* state of r (position in its cycle)
    gp_drawn,       \* whether a value has been drawn from r
    \* distributions_from_blocks (src/engine/io_formats.py)
    db_pc,          \* position in distributions_from_blocks
    db_blocks,      \* V of each block
    db_i,           \* blocks taken by the binning loop
    db_freq,        \* freq_counts
    db_mass,        \* mass_counts
    db_total,       \* total_mass
    db_j,           \* bins taken by the cumulative loop
    db_fc,          \* fc
    db_mc,          \* mc
    db_cum_freq,    \* cum_freq
    db_cum_mass,    \* cum_mass
    \* random (the generators) and orepass_hangups (src/engine/hangup.py)
    gen,            \* each generator object: the seed it was built with and
                    \* its position in the stream of that seed
    rnd,            \* the stream of each seed, as far as it has been drawn
    oh_in,          \* blocks, bell_width, seed of each call
    oh_pc,          \* position of each call in orepass_hangups
    oh_widths,      \* widths
    oh_i,           \* i
    oh_high,        \* high
    oh_low,         \* low
    oh_tons,        \* hangup_tons
    \* kear_hangups (src/engine/hangup.py)
    kh_in,          \* blocks, bell_area, seed of each call
    kh_pc,          \* position of each call in kear_hangups
    kh_i,           \* blocks taken by the for loop
    kh_batch,       \* batch
    kh_high,        \* high
    kh_low,         \* low
    kh_tons         \* hangup_tons

vars_sec == <<sec_pc, sec_prim, sec_cfg, sec_i, sec_stack, sec_out, sec_fines,
              sec_sh, sec_nsplit, sec_ratio>>

vars_ss == <<ss_pc, ss_dist, ss_lo, ss_m, ss_hi, ss_cap, ss_tries, ss_rng,
             ss_draws, ss_ret>>

vars_gp == <<gp_pc, gp_in, gp_sets, gp_idxs, gp_perm, gp_dims0, gp_dims, gp_k,
             gp_ji, gp_log, gp_blocks, gp_rng, gp_drawn>>

vars_db == <<db_pc, db_blocks, db_i, db_freq, db_mass, db_total, db_j, db_fc,
             db_mc, db_cum_freq, db_cum_mass>>

vars_rng == <<gen, rnd>>

vars_oh == <<oh_in, oh_pc, oh_widths, oh_i, oh_high, oh_low, oh_tons>>

vars_kh == <<kh_in, kh_pc, kh_i, kh_batch, kh_high, kh_low, kh_tons>>

\* on_run_monte_carlo.work (src/ui/app.py): the batch, the position of the
\* worker thread, the futures not yet consumed, the tasks whose worker
\* raises, the results consumed per label, the order of first appearance of
\* the labels and the emitted runs per label.
VARIABLES mc_in, mc_pc, mc_futs, mc_raises, mc_results, mc_order, mc_info
vars_mc == <<mc_in, mc_pc, mc_futs, mc_raises, mc_results, mc_order, mc_info>>

\* A call of a pure function of the engine (strength.py, secondary.py): the
\* function, and per call its arguments, its position and its result.
VARIABLES pf_fn, pf_args, pf_pc, pf_ret
vars_pf == <<pf_fn, pf_args, pf_pc, pf_ret>>

\* write_prm / write_sec (io_formats.py): which of the two, the arguments,
\* the position, the next bin and the lines written to the file so far.
VARIABLES wr_fn, wr_in, wr_pc, wr_i, wr_lines
vars_wr == <<wr_fn, wr_in, wr_pc, wr_i, wr_lines>>

vars == <<vars_sec, vars_ss, vars_gp, vars_db, vars_rng, vars_oh, vars_kh, vars_mc, vars_pf, vars_wr>>

\* What a step of one call leaves alone: the state of the other calls.
SecFrame ==
    UNCHANGED <<vars_ss, vars_gp, vars_db, vars_rng, vars_oh, vars_kh, vars_mc, vars_pf, vars_wr>>
SsFrame ==
    UNCHANGED <<vars_sec, vars_gp, vars_db, vars_rng, vars_oh, vars_kh, vars_mc, vars_pf, vars_wr>>
GpFrame ==
    UNCHANGED <<vars_sec, vars_ss, vars_db, vars_rng, vars_oh, vars_kh, vars_mc, vars_pf, vars_wr>>
DbFrame ==
    UNCHANGED <<vars_sec, vars_ss, vars_gp, vars_rng, vars_oh, vars_kh, vars_mc, vars_pf, vars_wr>>
OhFrame == UNCHANGED <<vars_sec, vars_ss, vars_gp, vars_db, vars_kh, vars_mc, vars_pf, vars_wr>>
KhFrame == UNCHANGED <<vars_sec, vars_ss, vars_gp, vars_db, vars_oh, vars_mc, vars_pf, vars_wr>>

(***************************************************************************)
(* Bounds of the model and sets the inputs are drawn from.                 *)
(***************************************************************************)
MaxPrimBlocks == 2

\* r.random(): values of [0, 1).
URand == {Zero, Rat(19, 20)}

\* Seq(S) up to a length.
SeqUpTo(S, n) == UNION {[1..k -> S] : k \in 0..n}

(***************************************************************************)
(* src/engine/secondary.py                                                 *)
(***************************************************************************)
Table6 ==
    << <<Rat(999, 1000), Rat(10, 100)>>, <<RInt(2), Rat(20, 100)>>,
       <<RInt(3), Rat(30, 100)>>, <<RInt(4), Rat(40, 100)>>,
       <<RInt(5), Rat(50, 100)>>, <<RInt(6), Rat(60, 100)>>,
       <<RInt(7), Rat(70, 100)>>, <<RInt(8), Rat(80, 100)>>,
       <<RInt(9), Rat(90, 100)>>, <<Rat(100001, 10000), One>> >>

Table7 ==
    << <<RInt(1), RInt(20)>>, <<RInt(2), RInt(40)>>, <<RInt(3), RInt(60)>>,
       <<RInt(4), RInt(80)>>, <<RInt(5), RInt(100)>>, <<RInt(6), RInt(100)>>,
       <<RInt(7), RInt(100)>>, <<RInt(8), RInt(100)>>, <<RInt(9), RInt(100)>>,
       <<Rat(100001, 10000), RInt(100)>> >>

\* The least element of a non-empty set of integers.
MinOf(S) == CHOOSE m \in S : \A k \in S : m <= k

split_prob_from_Omega(Omega, with_joints) ==
    LET t == IF with_joints THEN Table7 ELSE Table6
        hit == {i \in DOMAIN t : RLe(Omega, t[i][1])}
    IN  IF hit # {}
        THEN LET p == t[MinOf(hit)][2]
             IN  IF RLt(One, p) THEN RDiv(p, RInt(100)) ELSE p
        ELSE RDiv(t[Len(t)][2], RInt(100))

CushionKeys == <<5, 10, 15, 20, 25, 30, 35, 40, 50, 60>>
CushionVals == <<Rat(95, 100), Rat(90, 100), Rat(85, 100), Rat(80, 100),
                 Rat(75, 100), Rat(70, 100), Rat(60, 100), Rat(50, 100),
                 Rat(40, 100), Rat(30, 100)>>

cushioning_factor(fines_pct) ==
    LET hit == {i \in DOMAIN CushionKeys : RLe(fines_pct, RInt(CushionKeys[i]))}
    IN  IF RLe(fines_pct, Zero) THEN One
        ELSE IF hit # {} THEN CushionVals[MinOf(hit)]
        ELSE CushionVals[Len(CushionVals)]

rounding_fines_pct(mu_deg) == RAdd(RDiv(mu_deg, RInt(5)), RInt(3))

\* Fc * Fp * Fr * sigma_c (lines 88, 100-101): Fr is 0.66 * exp(0.023 * rate)
\* and sigma_c comes from block_strength's exp/log decay; the product is any
\* of these values.
HFactors == {Half, RInt(3)}

\* Mutant of H_cycle: the product without the floor of 1.0.
H_cycle_NoFloor(hfac) == hfac
H_cycle(hfac) == RMax(One, hfac)

SecondaryBlock(V, Omega, J) == [V |-> V, Omega |-> Omega, J |-> J]
StackEntry(V, Omega, J, z) == [V |-> V, Omega |-> Omega, J |-> J, z |-> z]
\* The inputs of run_secondary: PrimaryBlock fields it reads (V, Omega,
\* joints_inside) and the configuration values lines 86-90 derive from.
PrimTypes ==
    { [V |-> RInt(5), Omega |-> RInt(3), J |-> 1],
      [V |-> Half, Omega |-> RInt(12), J |-> 0] }

SecCfg(dh, mu, cush, arch) ==
    [draw_height |-> dh, mu_scatter_deg |-> mu, cushioning_fines_pct |-> cush,
     arching_pct |-> arch]

SecCfgs ==
    { SecCfg(One, RInt(10), Zero, Rat(12, 100)),
      SecCfg(RInt(2), RInt(35), RInt(20), Half),
      SecCfg(One, RInt(35), RInt(20), Rat(3, 2)) }

\* Lines 105-108: the split of one piece.
FinesFraction(mu_deg) == RDiv(rounding_fines_pct(mu_deg), RInt(100))
FinesOf(V, f) == RMul(V, f)
\* Mutant of ChildV: the children keep the parent's whole mass although the
\* fines were already added to sec_fines_mass.
ChildV_KeepsFines(V, f) == RMul(Half, V)
ChildV(V, f) == RMul(Half, RMul(V, RSub(One, f)))
\* Mutant of ChildOmega: the halved Omega without the floor of 1.0.
ChildOmega_NoFloor(Omega) == RMul(Half, Omega)
ChildOmega(Omega) == RMax(One, RMul(Half, Omega))

\* int(x): truncation toward zero.
\* Mutant of IntTrunc: rounding up instead of toward zero.
IntTrunc_Up(x) == (x[1] + x[2] - 1) \div x[2]
IntTrunc(x) == IF x[1] >= 0 THEN x[1] \div x[2] ELSE -((-x[1]) \div x[2])

\* s[:n] of Python.
SlicePrefix(s, n) ==
    LET k == IF n >= 0 THEN (IF n < Len(s) THEN n ELSE Len(s))
             ELSE (IF Len(s) + n > 0 THEN Len(s) + n ELSE 0)
    IN  SubSeq(s, 1, k)

\* Line 124: the indices of the blocks with V > 2.0, ascending.
Candidates(out) ==
    SelectSeq([i \in 1..Len(out) |-> i], LAMBDA i : RLt(RInt(2), out[i].V))

\* Lines 126-130: each chosen block is replaced by one half and the other
\* half is appended.
ArchHalf(b) == SecondaryBlock(RMul(Half, b.V), ChildOmega(b.Omega), b.J)

ArchingSplit(out, chosen) ==
    [i \in 1..(Len(out) + Len(chosen)) |->
        IF i <= Len(out)
        THEN (IF i \in Range(chosen) THEN ArchHalf(out[i]) ELSE out[i])
        ELSE ArchHalf(out[chosen[i - Len(out)]])]

SecIdle ==
    /\ sec_pc = "idle" /\ sec_prim = <<>> /\ sec_cfg = <<>> /\ sec_i = 0
    /\ sec_stack = <<>> /\ sec_out = <<>> /\ sec_fines = Zero
    /\ sec_sh = 0 /\ sec_nsplit = 0 /\ sec_ratio = <<>>

\* Lines 80-93: the call, up to the for loop.
SecInit ==
    /\ sec_pc = "worklist"
    /\ sec_prim \in SeqUpTo(PrimTypes, MaxPrimBlocks)
    /\ sec_cfg \in SecCfgs
    /\ sec_i = 0 /\ sec_stack = <<>> /\ sec_out = <<>> /\ sec_fines = Zero
    /\ sec_sh = 0 /\ sec_nsplit = 0 /\ sec_ratio = <<>>

\* Line 95-96: the for loop takes the next primary block.
SecNextBlock ==
    /\ SecFrame
    /\ sec_pc = "worklist" /\ sec_stack = <<>> /\ sec_i < Len(sec_prim)
    /\ sec_i' = sec_i + 1
    /\ sec_stack' = << StackEntry(sec_prim[sec_i + 1].V, sec_prim[sec_i + 1].Omega,
                                  sec_prim[sec_i + 1].J, sec_cfg.draw_height) >>
    /\ UNCHANGED <<sec_pc, sec_prim, sec_cfg, sec_out, sec_fines, sec_sh,
                   sec_nsplit, sec_ratio>>

\* Lines 97-121: one breakage cycle of the popped entry.
SecCycle ==
    /\ SecFrame
    /\ sec_pc = "worklist" /\ sec_stack # <<>>
    /\ \E hfac \in HFactors, u \in URand :
        LET e == sec_stack[Len(sec_stack)]
            rest == SubSeq(sec_stack, 1, Len(sec_stack) - 1)
            contains_joints == e.J > 0
            p0 == split_prob_from_Omega(e.Omega, contains_joints)
            p == IF RLt(One, e.V)
                 THEN RMul(p0, cushioning_factor(sec_cfg.cushioning_fines_pct))
                 ELSE p0
            new_z == RSub(e.z, H_cycle(hfac))
            f == FinesFraction(sec_cfg.mu_scatter_deg)
            childV == ChildV(e.V, f)
            childOmega == ChildOmega(e.Omega)
        IN  IF RLt(u, p)
            THEN /\ sec_fines' = RAdd(sec_fines, FinesOf(e.V, f))
                 /\ IF RLe(new_z, Zero)
                    THEN /\ sec_out' = sec_out \o
                                << SecondaryBlock(childV, childOmega, e.J),
                                   SecondaryBlock(childV, childOmega, e.J) >>
                         /\ sec_stack' = rest
                    ELSE /\ sec_stack' = rest \o
                                << StackEntry(childV, childOmega, e.J, new_z),
                                   StackEntry(childV, childOmega, e.J, new_z) >>
                         /\ sec_out' = sec_out
            ELSE /\ sec_fines' = sec_fines
                 /\ IF RLe(new_z, Zero)
                    THEN /\ sec_out' = Append(sec_out, SecondaryBlock(e.V, e.Omega, e.J))
                         /\ sec_stack' = rest
                    ELSE /\ sec_stack' = Append(rest, StackEntry(e.V, e.Omega, e.J, new_z))
                         /\ sec_out' = sec_out
    /\ UNCHANGED <<sec_pc, sec_prim, sec_cfg, sec_i, sec_sh, sec_nsplit, sec_ratio>>

\* Line 123: r.shuffle(out) starts once the for loop is over; the shuffle
\* swaps x[i] with x[j], j drawn from 0..i, for i from the last index down.
SecShuffleStart ==
    /\ SecFrame
    /\ sec_pc = "worklist" /\ sec_stack = <<>> /\ sec_i = Len(sec_prim)
    /\ sec_pc' = "shuffle"
    /\ sec_sh' = Len(sec_out)
    /\ UNCHANGED <<sec_prim, sec_cfg, sec_i, sec_stack, sec_out, sec_fines,
                   sec_nsplit, sec_ratio>>

SecShuffleSwap ==
    /\ SecFrame
    /\ sec_pc = "shuffle" /\ sec_sh >= 2
    /\ \E j \in 1..sec_sh :
        sec_out' = [sec_out EXCEPT ![sec_sh] = sec_out[j], ![j] = sec_out[sec_sh]]
    /\ sec_sh' = sec_sh - 1
    /\ UNCHANGED <<sec_pc, sec_prim, sec_cfg, sec_i, sec_stack, sec_fines,
                   sec_nsplit, sec_ratio>>

\* Lines 124-134: the arching post-process and the returned ratio, kept as
\* the pair (sec_fines_mass, sum of V) of fines / (sum + 1e-9).
SecArching ==
    /\ SecFrame
    /\ sec_pc = "shuffle" /\ sec_sh < 2
    /\ LET candidates == Candidates(sec_out)
           n_split == IntTrunc(RMul(sec_cfg.arching_pct, RInt(Len(candidates))))
           chosen == SlicePrefix(candidates, n_split)
           out2 == ArchingSplit(sec_out, chosen)
       IN  /\ sec_out' = out2
           /\ sec_nsplit' = Len(chosen)
           /\ sec_ratio' = <<sec_fines, RSum([i \in 1..Len(out2) |-> out2[i].V])>>
    /\ sec_pc' = "done"
    /\ sec_sh' = 0
    /\ UNCHANGED <<sec_prim, sec_cfg, sec_i, sec_stack, sec_fines>>

SecNext == SecNextBlock \/ SecCycle \/ SecShuffleStart \/ SecShuffleSwap \/ SecArching

(***************************************************************************)
(* src/engine/distributions.py                                             *)
(***************************************************************************)
\* for _ in range(10000) of sample_truncated_exponential.
TruncExpRetries == 10000

\* The generator's state space is finite: draws move it round a cycle.
RngPeriod == 3

\* An optional mapping entry or record field: absent (no such key), None
\* (the unset default of SpacingDist.max_obs) or a number.
Absent == [tag |-> "absent", v |-> Zero]
None == [tag |-> "None", v |-> Zero]
Some(x) == [tag |-> "val", v |-> x]

SpacingDist(type, lo, mean, hi, max_obs) ==
    [type |-> type, min |-> lo, mean |-> mean, max_or_90pct |-> hi,
     max_obs |-> max_obs]

\* Lines 38-42: lo and hi as used for the dispatch.
NormLo(dist) == dist.min
\* Mutant of NormHi: max is used as given.
NormHi_AsGiven(dist) == dist.max_or_90pct
NormHi(dist) ==
    IF RLe(dist.max_or_90pct, dist.min)
    THEN RMax(RAdd(dist.min, Rat(1, 1000)), RMul(dist.min, Rat(105, 100)))
    ELSE dist.max_or_90pct
\* Lines 43-44.
NormMean(dist) ==
    LET lo == NormLo(dist)
        hi == NormHi(dist)
    IN  IF RLt(lo, dist.mean) /\ RLt(dist.mean, hi)
        THEN dist.mean
        ELSE RAdd(lo, RMul(Rat(35, 100), RSub(hi, lo)))

\* rng.expovariate(lam): any value >= 0.
ExpoVals == {Zero, Half, RInt(5)}
\* rng.gauss(mean, sigma) is mean + sigma * g, g a standard normal value.
GaussStd == {RInt(-4), Zero, RInt(4)}
\* rng.lognormvariate(mu, sigma): any value > 0 (the fit of lines 25-28 uses
\* log; whatever mu and sigma it gives, the support is the positive reals).
LogNVals == {Rat(1, 10), One, RInt(8)}

\* Line 10-11 of sample_truncated_exponential: the candidate and its test.
TruncCandidate(lo, x) == RAdd(lo, x)
TruncAccepted(v, hi) == RLe(v, hi)
\* Mutant of sample_uniform: the width of the interval is taken to be hi.
sample_uniform_NoOffset(u, lo, hi) == RAdd(lo, RMul(u, hi))
\* Line 13 and sample_uniform, line 21.
sample_uniform(u, lo, hi) == RAdd(lo, RMul(u, RSub(hi, lo)))
\* sample_normal_range, lines 16-18.
NormalSigma(lo, hi) == RMax(Rat(1, 1000000), RDiv(RSub(hi, lo), RInt(6)))
sample_normal_range(g, lo, mean, hi) ==
    LET x == RAdd(mean, RMul(NormalSigma(lo, hi), g))
    IN  RMax(lo, RMin(hi, x))
\* Line 31 of sample_lognormal_capped.
LognormalAccepted(v, max_obs) == RLe(v, max_obs)
\* Line 53: max_obs = float(dist.get("max_obs", hi * 3.0)).
DefaultMaxObs(hi) == RMul(hi, RInt(3))

KnownTypes == {"trunc_exp", "normal", "uniform", "lognormal"}

\* The distributions sample_spacing is called with.
SsParams ==
    { <<Rat(3, 10), One, RInt(3)>>,      \* min < mean < max
      <<One, RInt(2), RInt(4)>>,          \* min < mean < max
      <<One, One, One>>,                  \* min = mean = max
      <<One, RInt(5), RInt(2)>>,          \* mean outside (min, max)
      <<Zero, One, RInt(3)>>,             \* min = 0
      <<Rat(1, 100), Rat(1, 100), Rat(1, 100)>> }  \* min = mean = max, small
SsMaxObs == {Absent, None, Some(Zero), Some(RInt(-1)), Some(Half), Some(RInt(9))}
SsDists ==
    {SpacingDist(t, p[1], p[2], p[3], Absent) :
        t \in {"trunc_exp", "normal", "uniform"}, p \in SsParams}
    \cup {SpacingDist("weibull", Rat(3, 10), One, RInt(3), Absent)}
    \cup {SpacingDist("lognormal", p[1], p[2], p[3], mo) :
            p \in SsParams, mo \in SsMaxObs}

RngStep(r) == (r + 1) % RngPeriod

SsIdle ==
    /\ ss_pc = "idle" /\ ss_dist = <<>> /\ ss_lo = Zero /\ ss_m = Zero
    /\ ss_hi = Zero /\ ss_cap = Zero /\ ss_tries = 0 /\ ss_rng = 0
    /\ ss_draws = 0 /\ ss_ret = Zero

\* Lines 34-44: the call and the normalisation of (lo, m, hi).
SsInit ==
    /\ ss_pc = "dispatch"
    /\ ss_dist \in SsDists
    /\ ss_lo = NormLo(ss_dist) /\ ss_m = NormMean(ss_dist) /\ ss_hi = NormHi(ss_dist)
    /\ ss_cap = Zero /\ ss_tries = 0 /\ ss_rng = 0 /\ ss_draws = 0 /\ ss_ret = Zero

SsReturn(v) == ss_pc' = "returned" /\ ss_ret' = v
SsDraw == ss_rng' = RngStep(ss_rng) /\ ss_draws' = ss_draws + 1

\* Lines 46-47 and 55-56: trunc_exp and every unknown type enter
\* sample_truncated_exponential; lines 5-6 return lo when hi <= lo.
SsTruncEnter ==
    /\ SsFrame
    /\ ss_pc = "dispatch" /\ ss_dist.type \notin {"normal", "uniform", "lognormal"}
    /\ IF RLe(ss_hi, ss_lo)
       THEN SsReturn(ss_lo)
       ELSE ss_pc' = "trunc_loop" /\ ss_ret' = ss_ret
    /\ UNCHANGED <<ss_dist, ss_lo, ss_m, ss_hi, ss_cap, ss_tries, ss_rng, ss_draws>>

\* Lines 8-12: one iteration of the rejection loop.
SsTruncDraw ==
    /\ SsFrame
    /\ ss_pc = "trunc_loop" /\ ss_tries < TruncExpRetries
    /\ \E x \in ExpoVals :
        LET v == TruncCandidate(ss_lo, x)
        IN  IF TruncAccepted(v, ss_hi)
            THEN SsReturn(v) /\ ss_tries' = ss_tries
            ELSE ss_tries' = ss_tries + 1 /\ UNCHANGED <<ss_pc, ss_ret>>
    /\ SsDraw
    /\ UNCHANGED <<ss_dist, ss_lo, ss_m, ss_hi, ss_cap>>

\* Line 13: the fallback after the loop is exhausted.
SsTruncFallback ==
    /\ SsFrame
    /\ ss_pc = "trunc_loop" /\ ss_tries >= TruncExpRetries
    /\ \E u \in URand : SsReturn(sample_uniform(u, ss_lo, ss_hi))
    /\ SsDraw
    /\ UNCHANGED <<ss_dist, ss_lo, ss_m, ss_hi, ss_cap, ss_tries>>

\* Lines 48-49.
SsNormal ==
    /\ SsFrame
    /\ ss_pc = "dispatch" /\ ss_dist.type = "normal"
    /\ \E g \in GaussStd : SsReturn(sample_normal_range(g, ss_lo, ss_m, ss_hi))
    /\ SsDraw
    /\ UNCHANGED <<ss_dist, ss_lo, ss_m, ss_hi, ss_cap, ss_tries>>

\* Lines 50-51.
SsUniform ==
    /\ SsFrame
    /\ ss_pc = "dispatch" /\ ss_dist.type = "uniform"
    /\ \E u \in URand : SsReturn(sample_uniform(u, ss_lo, ss_hi))
    /\ SsDraw
    /\ UNCHANGED <<ss_dist, ss_lo, ss_m, ss_hi, ss_cap, ss_tries>>

\* Lines 52-54: the cap is read and sample_lognormal_capped is entered;
\* float(None) raises TypeError.
SsLognormalEnter ==
    /\ SsFrame
    /\ ss_pc = "dispatch" /\ ss_dist.type = "lognormal"
    /\ IF ss_dist.max_obs.tag = "None"
       THEN ss_pc' = "raised_TypeError" /\ ss_cap' = ss_cap
       ELSE /\ ss_pc' = "lognormal_loop"
            /\ ss_cap' = IF ss_dist.max_obs.tag = "absent"
                         THEN DefaultMaxObs(ss_hi)
                         ELSE ss_dist.max_obs.v
    /\ UNCHANGED <<ss_dist, ss_lo, ss_m, ss_hi, ss_tries, ss_rng, ss_draws, ss_ret>>

\* Lines 29-32: while True; a draw at or below the cap is returned.
SsLognormalAccept ==
    /\ SsFrame
    /\ ss_pc = "lognormal_loop"
    /\ \E v \in LogNVals : LognormalAccepted(v, ss_cap) /\ SsReturn(v)
    /\ ss_rng' = RngStep(ss_rng)
    /\ UNCHANGED <<ss_dist, ss_lo, ss_m, ss_hi, ss_cap, ss_tries, ss_draws>>

\* Lines 29-31: a draw above the cap is dropped and the loop goes round.
SsLognormalReject ==
    /\ SsFrame
    /\ ss_pc = "lognormal_loop"
    /\ \E v \in LogNVals : ~LognormalAccepted(v, ss_cap)
    /\ ss_rng' = RngStep(ss_rng)
    /\ UNCHANGED <<ss_pc, ss_dist, ss_lo, ss_m, ss_hi, ss_cap, ss_tries, ss_draws,
                   ss_ret>>

SsNext ==
    \/ SsTruncEnter \/ SsTruncDraw \/ SsTruncFallback \/ SsNormal \/ SsUniform
    \/ SsLognormalEnter \/ SsLognormalAccept \/ SsLognormalReject

(***************************************************************************)
(* src/engine/primary.py and compute_IBS of src/engine/strength.py         *)
(***************************************************************************)
\* n_blocks of the calls that are followed block by block.
MaxBlocks == 2

\* The result of one sample_spacing call: a value, the TypeError of
\* float(None), or a rejection loop that no draw can leave.
Val(x) == [tag |-> "val", v |-> x]
RaisedTypeError == [tag |-> "TypeError", v |-> Zero]
Diverges == [tag |-> "diverges", v |-> Zero]

\* sample_spacing(rng, dist) over every random stream.
SampleOutcomes(dist) ==
    LET lo == NormLo(dist)
        m == NormMean(dist)
        hi == NormHi(dist)
        cap == IF dist.max_obs.tag = "absent" THEN DefaultMaxObs(hi)
               ELSE dist.max_obs.v
    IN  CASE dist.type = "normal" ->
               {Val(sample_normal_range(g, lo, m, hi)) : g \in GaussStd}
          [] dist.type = "uniform" ->
               {Val(sample_uniform(u, lo, hi)) : u \in URand}
          [] dist.type = "lognormal" ->
               IF dist.max_obs.tag = "None" THEN {RaisedTypeError}
               ELSE IF \A v \in LogNVals : ~LognormalAccepted(v, cap)
                    THEN {Diverges}
                    ELSE {Val(v) : v \in {w \in LogNVals : LognormalAccepted(w, cap)}}
          [] OTHER ->
               IF RLe(hi, lo) THEN {Val(lo)}
               ELSE {Val(TruncCandidate(lo, x)) :
                        x \in {y \in ExpoVals : TruncAccepted(TruncCandidate(lo, y), hi)}}
                    \cup {Val(sample_uniform(u, lo, hi)) : u \in URand}

JointSet(spacing, JC) == [spacing |-> spacing, JC |-> JC]
CaveFace(sd, ss, sn, allow) ==
    [stress_dip |-> sd, stress_strike |-> ss, stress_normal |-> sn,
     allow_stress_fractures |-> allow]
RockMass(IBS, IRS, ff, fc) ==
    [IBS |-> IBS, IRS |-> IRS, frac_freq |-> ff, frac_condition |-> fc]
PrimaryBlock(V, Omega, ji, A, lam) ==
    [V |-> V, Omega |-> Omega, joints_inside |-> ji, A |-> A, lambda_max |-> lam]

\* _spacing_mean, lines 9-13.
spacing_mean(sp) == sp.mean

\* prob_from_JC, lines 15-23.
JCxs == <<0, 10, 20, 30, 40>>
JCys == <<Rat(5, 100), Rat(25, 100), Rat(50, 100), Rat(75, 100), Rat(92, 100)>>
prob_from_JC(JC0) ==
    LET JC == IF JC0 < 0 THEN 0 ELSE IF JC0 > 40 THEN 40 ELSE JC0
        i == CHOOSE k \in 1..4 :
                /\ JCxs[k] <= JC /\ JC <= JCxs[k + 1]
                /\ \A j \in 1..(k - 1) : ~(JCxs[j] <= JC /\ JC <= JCxs[j + 1])
        t == Rat(JC - JCxs[i], JCxs[i + 1] - JCxs[i])
    IN  RAdd(JCys[i], RMul(t, RSub(JCys[i + 1], JCys[i])))

\* prob_weight_from_volume, lines 25-28: 1 - exp(-k * max(0, V)) is 0 for
\* V <= 0 and a value of (0, 1) otherwise.
PwVals(V) == IF RLe(V, Zero) THEN {Zero} ELSE {Rat(1, 100), Rat(99, 100)}

\* math.sqrt on the perfect squares the stress components give.
ISqrt(n) == CHOOSE k \in 0..n : k * k = n

\* shear_FOS(cave, JC) < 1.0, lines 30-35 and 99.  tan(30 deg)^2 = 1/3, so
\* Cj + sigma_n * tan(phi) < T  iff  T - Cj > 0 and sigma_n^2 / 3 < (T - Cj)^2.
ShearTau(cave) ==
    LET q == RAdd(RMul(cave.stress_dip, cave.stress_dip),
                  RMul(cave.stress_strike, cave.stress_strike))
    IN  RMul(Half, Rat(ISqrt(q[1]), ISqrt(q[2])))
shear_FOS_below_one(cave, JC) ==
    LET Cj == RMul(Rat(15, 1000), RInt(JC))
        sigma_n == RMax(Zero, cave.stress_normal)
        T == RMax(Rat(1, 1000000), ShearTau(cave))
        gap == RSub(T, Cj)
    IN  /\ RLt(Zero, gap)
        /\ \/ sigma_n = Zero
           \/ RLt(RDiv(RMul(sigma_n, sigma_n), RInt(3)), RMul(gap, gap))

\* compute_IBS, strength.py lines 5-10.
Clamp01(x) == RMax(Zero, RMin(One, x))
\* Mutant of compute_IBS: the normalised frequency is not capped at 1.
compute_IBS_Uncapped(IRS, frac_freq, frac_condition) ==
    LET ff_norm == RMax(Zero, RDiv(frac_freq, RInt(6)))
        cond_norm == Clamp01(Rat(frac_condition, 40))
        severity == RMul(ff_norm, RSub(One, RMul(Half, cond_norm)))
        factor == RSub(Rat(8, 10), RMul(RSub(Rat(8, 10), Rat(32, 100)), severity))
    IN  RMax(RMul(Rat(5, 100), IRS), RMul(factor, IRS))
\* compute_IBS, lines 5-10 of strength.py.
compute_IBS(IRS, frac_freq, frac_condition) ==
    LET ff_norm == Clamp01(RDiv(frac_freq, RInt(6)))
        cond_norm == Clamp01(Rat(frac_condition, 40))
        severity == RMul(ff_norm, RSub(One, RMul(Half, cond_norm)))
        factor == RSub(Rat(8, 10), RMul(RSub(Rat(8, 10), Rat(32, 100)), severity))
    IN  RMax(RMul(Rat(5, 100), IRS), RMul(factor, IRS))

\* The (F, spacing) table of maybe_add_stress_fracture_set, lines 43-46.
StressTable ==
    << <<Rat(1, 10), Rat(1, 100)>>, <<Rat(2, 10), Rat(3, 100)>>,
       <<Rat(4, 10), Rat(5, 100)>>, <<Rat(5, 10), Rat(7, 100)>>,
       <<Rat(7, 10), Rat(10, 100)>>, <<Rat(9, 10), Rat(20, 100)>>,
       <<One, Rat(30, 100)>>, <<Rat(12, 10), Rat(50, 100)>>,
       <<Rat(15, 10), One>>, <<RInt(2), RInt(10)>> >>

\* Mutant of StressMeanSpacing: the spacing of the table point at or below
\* F, without interpolation.
StressMeanSpacing_Step(F) ==
    LET Fvals == [i \in 1..Len(StressTable) |-> StressTable[i][1]]
        Svals == [i \in 1..Len(StressTable) |-> StressTable[i][2]]
        hits == {i \in 1..(Len(Fvals) - 1) : RLe(Fvals[i], F) /\ RLe(F, Fvals[i + 1])}
    IN  IF RLt(F, Fvals[1]) THEN Svals[1]
        ELSE IF hits = {} THEN Svals[Len(Svals)]
        ELSE Svals[CHOOSE k \in hits : \A j \in hits : k <= j]
\* Lines 49-59: the mean spacing for 0 < F < 2.
StressMeanSpacing(F) ==
    LET Fvals == [i \in 1..Len(StressTable) |-> StressTable[i][1]]
        Svals == [i \in 1..Len(StressTable) |-> StressTable[i][2]]
        hits == {i \in 1..(Len(Fvals) - 1) : RLe(Fvals[i], F) /\ RLe(F, Fvals[i + 1])}
    IN  IF RLt(F, Fvals[1]) THEN Svals[1]
        ELSE IF hits = {} THEN Svals[Len(Svals)]
        ELSE LET i == CHOOSE k \in hits : \A j \in hits : k <= j
                 t == RDiv(RSub(F, Fvals[i]), RSub(Fvals[i + 1], Fvals[i]))
             IN  RAdd(Svals[i], RMul(t, RSub(Svals[i + 1], Svals[i])))

\* maybe_add_stress_fracture_set, lines 37-67: the list it returns.
maybe_add_stress_fracture_set(rock, cave) ==
    LET sigma1 == RMax(cave.stress_dip, RMax(cave.stress_strike, cave.stress_normal))
        IBS == IF rock.IBS.tag = "val" THEN rock.IBS.v
               ELSE compute_IBS(rock.IRS, rock.frac_freq, rock.frac_condition)
        F == RDiv(sigma1, IBS)
    IN  IF RLe(IBS, Zero) THEN <<>>
        ELSE IF RLe(RInt(2), F) \/ RLe(F, Zero) THEN <<>>
        ELSE LET ms == StressMeanSpacing(F)
             IN  << JointSet([type |-> "trunc_exp", min |-> RMul(Half, ms),
                              mean |-> ms, max_or_90pct |-> RMul(RInt(2), ms),
                              max_obs |-> Absent], 0) >>

\* Line 82.
StressSets(rock, cave) ==
    IF cave.allow_stress_fractures
    THEN maybe_add_stress_fracture_set(rock, cave) ELSE <<>>

\* Mutant of AllSets: the derived stress-fracture set is not counted.
AllSets_SuppliedOnly(joints, stress_sets) == joints
\* Line 83.
AllSets(joints, stress_sets) == joints \o stress_sets

\* sorted(..., reverse=True) of three values: the stable order of positions.
Perms3 ==
    { <<1, 2, 3>>, <<1, 3, 2>>, <<2, 1, 3>>, <<2, 3, 1>>, <<3, 1, 2>>, <<3, 2, 1>> }
SortedDescPerm(d) ==
    CHOOSE p \in Perms3 :
        \A i \in 1..2 :
            \/ RLt(d[p[i + 1]], d[p[i]])
            \/ d[p[i + 1]] = d[p[i]] /\ p[i] < p[i + 1]
SortedDesc(d) == LET p == SortedDescPerm(d) IN <<d[p[1]], d[p[2]], d[p[3]]>>

\* omega_from_dims, lines 69-72.
omega_from_dims(a, b, c) ==
    LET s == SortedDesc(<<a, b, c>>)
        r == RMax(One, RDiv(s[1], RMax(Rat(1, 1000000), s[3])))
    IN  RAdd(One, RMul(Rat(67, 100), RSub(r, One)))

\* Line 78 of approximate_block_dims.
FloorDim(d) == RMax(Rat(5, 100), d)

\* list(dict.fromkeys(idxs)): first occurrences, in order.
RECURSIVE Dedupe(_)
\* Mutant of Dedupe: repeated indices are kept.
Dedupe_Keep(s) == s
Dedupe(s) ==
    IF s = <<>> THEN <<>>
    ELSE LET front == Dedupe(SubSeq(s, 1, Len(s) - 1))
             x == s[Len(s)]
         IN  IF x \in Range(front) THEN front ELSE Append(front, x)

\* Line 88 and r.choices: an index can be chosen when its weight is positive.
Weight(js) == RDiv(One, RMax(Rat(1, 1000000), spacing_mean(js.spacing)))
ChoiceSupport(sets) == {i \in 0..(Len(sets) - 1) : RLt(Zero, Weight(sets[i + 1]))}

\* The spacing distributions of the joint sets given to the generator.
DExp == SpacingDist("trunc_exp", One, RInt(2), RInt(3), None)
DDet == SpacingDist("trunc_exp", One, One, One, None)
DUni == SpacingDist("uniform", RInt(2), RInt(3), RInt(4), None)
DLogCap == SpacingDist("lognormal", Rat(1, 20), Rat(1, 10), Rat(1, 5), Some(Rat(1, 10)))
DLogUnset == SpacingDist("lognormal", Rat(3, 10), One, RInt(3), None)
DLogZero == SpacingDist("lognormal", Rat(3, 10), One, RInt(3), Some(Zero))

GpCall(n, rock, joints, cave) ==
    [n |-> n, rock |-> rock, joints |-> joints, cave |-> cave]

\* Rock masses: IBS computed (96), IBS given so that F = 1, F = 2, and IBS = 0.
RockComputed == RockMass(None, RInt(120), Zero, 20)
RockF(ibs) == RockMass(Some(ibs), RInt(120), Zero, 20)
\* Cave faces: stresses (0.3, 0.4, 0), all zero, and (3, 4, 1).
CaveLow(allow) == CaveFace(Rat(3, 10), Rat(4, 10), Zero, allow)
CaveNone == CaveFace(Zero, Zero, RInt(-1), TRUE)
CaveHigh == CaveFace(RInt(3), RInt(4), One, TRUE)

\* The calls of generate_primary_blocks that are followed.
GpInputs ==
    {GpCall(n, RockComputed, <<JointSet(DLogCap, 40), JointSet(DLogCap, 40),
                               JointSet(DLogCap, 0)>>, CaveLow(FALSE)) :
        n \in 1..MaxBlocks}
    \cup
    { GpCall(1, RockComputed,
             <<JointSet(DDet, 20), JointSet(DDet, 20), JointSet(DDet, 20)>>,
             CaveLow(FALSE)),
      GpCall(1, RockF(Rat(4, 10)),
             <<JointSet(DExp, 0), JointSet(DUni, 20), JointSet(DLogCap, 40)>>,
             CaveLow(TRUE)),
      GpCall(1, RockF(Rat(4, 10)), <<JointSet(DUni, 20), JointSet(DExp, 0)>>,
             CaveLow(TRUE)),
      GpCall(1, RockComputed, <<JointSet(DUni, 20), JointSet(DExp, 50)>>, CaveHigh),
      GpCall(1, RockF(Rat(4, 10)), <<JointSet(DUni, 20), JointSet(DExp, 0)>>,
             CaveLow(FALSE)),
      GpCall(1, RockF(Rat(2, 10)), <<JointSet(DUni, 20), JointSet(DExp, 0)>>,
             CaveLow(TRUE)),
      GpCall(1, RockF(Zero), <<JointSet(DUni, 20), JointSet(DExp, 0)>>,
             CaveLow(TRUE)),
      GpCall(1, RockComputed, <<JointSet(DUni, 20), JointSet(DExp, 0)>>, CaveNone),
      GpCall(1, RockF(Rat(4, 10)), <<JointSet(DUni, 20)>>, CaveLow(TRUE)),
      GpCall(1, RockF(Rat(4, 10)), <<>>, CaveLow(TRUE)),
      GpCall(1, RockComputed,
             <<JointSet(DUni, 20), JointSet(DLogUnset, 20), JointSet(DExp, 0)>>,
             CaveLow(FALSE)),
      GpCall(1, RockComputed,
             <<JointSet(DUni, 20), JointSet(DExp, 0), JointSet(DLogZero, 0)>>,
             CaveLow(FALSE)) }

GpIdle ==
    /\ gp_pc = "idle" /\ gp_in = <<>> /\ gp_sets = <<>> /\ gp_idxs = <<>>
    /\ gp_perm = <<>> /\ gp_dims0 = <<>> /\ gp_dims = <<>> /\ gp_k = 0
    /\ gp_ji = 0 /\ gp_log = <<>> /\ gp_blocks = <<>> /\ gp_rng = 0
    /\ gp_drawn = FALSE

\* Line 80-81: the call, r = random.Random(seed).
GpInit ==
    /\ gp_pc = "start" /\ gp_in \in GpInputs /\ gp_sets = <<>> /\ gp_idxs = <<>>
    /\ gp_perm = <<>> /\ gp_dims0 = <<>> /\ gp_dims = <<>> /\ gp_k = 0
    /\ gp_ji = 0 /\ gp_log = <<>> /\ gp_blocks = <<>> /\ gp_rng = 0
    /\ gp_drawn = FALSE

\* A call on r: its state moves on.
GpDraw == gp_rng' = RngStep(gp_rng) /\ gp_drawn' = TRUE

\* chosen, line 94.
GpChosen == [i \in 1..3 |-> gp_sets[gp_idxs[i] + 1]]

\* Lines 82-86.
GpStart ==
    /\ GpFrame
    /\ gp_pc = "start"
    /\ gp_sets' = AllSets(gp_in.joints, StressSets(gp_in.rock, gp_in.cave))
    /\ gp_pc' = IF Len(gp_sets') < 3 THEN "raised_ValueError" ELSE "for"
    /\ UNCHANGED <<gp_in, gp_idxs, gp_perm, gp_dims0, gp_dims, gp_k, gp_ji,
                   gp_log, gp_blocks, gp_rng, gp_drawn>>

\* Lines 87-90: the next block is begun with r.choices(..., k=3).
GpChoices ==
    /\ GpFrame
    /\ gp_pc = "for" /\ Len(gp_blocks) < gp_in.n
    /\ \E t \in [1..3 -> ChoiceSupport(gp_sets)] :
          /\ gp_idxs' = Dedupe(t)
          /\ gp_pc' = IF Len(Dedupe(t)) < 3 THEN "pad" ELSE "dims"
    /\ GpDraw
    /\ gp_perm' = <<>> /\ gp_dims0' = <<>> /\ gp_dims' = <<>> /\ gp_k' = 0
    /\ gp_ji' = 0 /\ gp_log' = <<>>
    /\ UNCHANGED <<gp_in, gp_sets, gp_blocks>>

\* Lines 91-93: one iteration of the padding loop.
GpPad ==
    /\ GpFrame
    /\ gp_pc = "pad"
    /\ \E j \in 0..(Len(gp_sets) - 1) :
          /\ gp_idxs' = Dedupe(Append(gp_idxs, j))
          /\ gp_pc' = IF Len(Dedupe(Append(gp_idxs, j))) < 3 THEN "pad" ELSE "dims"
    /\ GpDraw
    /\ UNCHANGED <<gp_in, gp_sets, gp_perm, gp_dims0, gp_dims, gp_k, gp_ji,
                   gp_log, gp_blocks>>

\* Lines 94-96: approximate_block_dims samples one spacing per chosen set, in
\* order; the three values, floored at 0.05, are sorted in descending order.
GpDims ==
    /\ GpFrame
    /\ gp_pc = "dims"
    /\ \E o1 \in SampleOutcomes(GpChosen[1].spacing),
          o2 \in SampleOutcomes(GpChosen[2].spacing),
          o3 \in SampleOutcomes(GpChosen[3].spacing) :
          LET o == <<o1, o2, o3>>
              bad == {i \in 1..3 : o[i].tag # "val"}
              first == CHOOSE i \in bad : \A j \in bad : i <= j
              d == [i \in 1..3 |-> FloorDim(o[i].v)]
          IN  IF bad # {}
              THEN /\ gp_pc' = IF o[first].tag = "TypeError"
                               THEN "raised_TypeError" ELSE "in_sample_spacing"
                   /\ UNCHANGED <<gp_perm, gp_dims0, gp_dims, gp_k>>
              ELSE /\ gp_pc' = "joint"
                   /\ gp_perm' = SortedDescPerm(d)
                   /\ gp_dims0' = SortedDesc(d)
                   /\ gp_dims' = SortedDesc(d)
                   /\ gp_k' = 1
    /\ GpDraw
    /\ UNCHANGED <<gp_in, gp_sets, gp_idxs, gp_ji, gp_log, gp_blocks>>

\* Lines 105-110: the dimension that receives the extension.
ExtendedPos(dim, dims) ==
    IF dim = dims[1] THEN 1 ELSE IF dim = dims[2] THEN 2 ELSE 3

\* Lines 97-111: one iteration of for js, dim in zip(chosen, [a, b, c]).
GpJoint ==
    /\ GpFrame
    /\ gp_pc = "joint" /\ gp_k \in 1..3
    /\ LET js == GpChosen[gp_k]
           dim == gp_dims0[gp_k]
           P0 == prob_from_JC(js.JC)
           P == IF shear_FOS_below_one(gp_in.cave, js.JC)
                THEN RMin(One, RAdd(P0, Rat(20, 100))) ELSE P0
           V_tmp == RMul(gp_dims[1], RMul(gp_dims[2], gp_dims[3]))
       IN  \E Pw \in PwVals(V_tmp), u \in URand :
              IF RLt(RMax(P, Pw), u)
              THEN \E o \in SampleOutcomes(js.spacing) :
                      IF o.tag # "val"
                      THEN /\ gp_pc' = IF o.tag = "TypeError"
                                       THEN "raised_TypeError"
                                       ELSE "in_sample_spacing"
                           /\ UNCHANGED <<gp_dims, gp_ji, gp_log, gp_k>>
                      ELSE LET pos == ExtendedPos(dim, gp_dims)
                           IN  /\ gp_dims' = [gp_dims EXCEPT
                                                ![pos] = RAdd(gp_dims[pos], o.v)]
                               /\ gp_ji' = gp_ji + 1
                               /\ gp_log' = Append(gp_log,
                                     [k |-> gp_k, pos |-> pos, ext |-> o.v])
                               /\ gp_k' = gp_k + 1
                               /\ gp_pc' = gp_pc
              ELSE /\ gp_k' = gp_k + 1
                   /\ UNCHANGED <<gp_pc, gp_dims, gp_ji, gp_log>>
    /\ GpDraw
    /\ UNCHANGED <<gp_in, gp_sets, gp_idxs, gp_perm, gp_dims0, gp_blocks>>

\* Lines 112-116: the block is built and appended.
GpEmit ==
    /\ GpFrame
    /\ gp_pc = "joint" /\ gp_k = 4
    /\ LET a == gp_dims[1]
           b == gp_dims[2]
           c == gp_dims[3]
           V == RMax(Rat(1, 1000000), RMul(a, RMul(b, c)))
           A == RMul(RInt(2), RAdd(RMul(a, b), RAdd(RMul(b, c), RMul(c, a))))
           lam == RMax(a, RMax(b, c))
           Omega == omega_from_dims(a, b, c)
       IN  gp_blocks' = Append(gp_blocks, PrimaryBlock(V, Omega, gp_ji, A, lam))
    /\ gp_pc' = "for"
    /\ UNCHANGED <<gp_in, gp_sets, gp_idxs, gp_perm, gp_dims0, gp_dims, gp_k,
                   gp_ji, gp_log, gp_rng, gp_drawn>>

\* Line 117.
GpReturn ==
    /\ GpFrame
    /\ gp_pc = "for" /\ Len(gp_blocks) >= gp_in.n
    /\ gp_pc' = "done"
    /\ UNCHANGED <<gp_in, gp_sets, gp_idxs, gp_perm, gp_dims0, gp_dims, gp_k,
                   gp_ji, gp_log, gp_blocks, gp_rng, gp_drawn>>

\* Lines 29-31 of sample_lognormal_capped when no draw is at or below the
\* cap: the loop goes round and the call into sample_spacing never returns.
GpSampleSpin ==
    /\ GpFrame
    /\ gp_pc = "in_sample_spacing"
    /\ GpDraw
    /\ UNCHANGED <<gp_pc, gp_in, gp_sets, gp_idxs, gp_perm, gp_dims0, gp_dims,
                   gp_k, gp_ji, gp_log, gp_blocks>>

GpNext ==
    \/ GpStart \/ GpChoices \/ GpPad \/ GpDims \/ GpJoint \/ GpEmit \/ GpReturn
    \/ GpSampleSpin

(***************************************************************************)
(* src/engine/io_formats.py: log_bins and distributions_from_blocks.       *)
(*                                                                         *)
(* Volumes and masses are whole multiples of 1e-9 m3 (the constant added   *)
(* to total_mass), held as naturals of any size: sequences of digits in    *)
(* base BBase, least significant first, no leading zero digit.             *)
(***************************************************************************)
BBase == 10000

RECURSIVE BNat(_)
BNat(n) == IF n = 0 THEN <<>> ELSE <<n % BBase>> \o BNat(n \div BBase)

RECURSIVE BAddC(_, _, _)
BAddC(x, y, c) ==
    IF x = <<>> /\ y = <<>> THEN (IF c = 0 THEN <<>> ELSE <<c>>)
    ELSE LET dx == IF x = <<>> THEN 0 ELSE Head(x)
             dy == IF y = <<>> THEN 0 ELSE Head(y)
             s == dx + dy + c
         IN  <<s % BBase>>
             \o BAddC(IF x = <<>> THEN x ELSE Tail(x),
                      IF y = <<>> THEN y ELSE Tail(y), s \div BBase)
BAdd(x, y) == BAddC(x, y, 0)

\* x * k for 0 <= k < BBase.
RECURSIVE BMulDigitC(_, _, _)
BMulDigitC(x, k, c) ==
    IF x = <<>> THEN (IF c = 0 THEN <<>> ELSE <<c>>)
    ELSE LET s == Head(x) * k + c
         IN  <<s % BBase>> \o BMulDigitC(Tail(x), k, s \div BBase)
BMulDigit(x, k) == IF k = 0 THEN <<>> ELSE BMulDigitC(x, k, 0)

BShift(x) == IF x = <<>> THEN x ELSE <<0>> \o x

RECURSIVE BMul(_, _)
BMul(x, y) ==
    IF y = <<>> THEN <<>>
    ELSE BAdd(BMulDigit(x, Head(y)), BShift(BMul(x, Tail(y))))

\* x <= y.
RECURSIVE BLeSameLen(_, _)
BLeSameLen(x, y) ==
    IF x = <<>> THEN TRUE
    ELSE LET n == Len(x)
         IN  IF x[n] # y[n] THEN x[n] < y[n]
             ELSE BLeSameLen(SubSeq(x, 1, n - 1), SubSeq(y, 1, n - 1))
BLe(x, y) ==
    IF Len(x) # Len(y) THEN Len(x) < Len(y) ELSE BLeSameLen(x, y)
BLt(x, y) == x # y /\ BLe(x, y)

\* 10^k: BBase is 10^4, so k \div 4 zero digits below 10^(k % 4).
BPow10(k) ==
    [i \in 1..((k \div 4) + 1) |->
        IF i = (k \div 4) + 1 THEN <<1, 10, 100, 1000>>[(k % 4) + 1] ELSE 0]

RECURSIVE BSum(_)
BSum(s) == IF s = <<>> THEN <<>> ELSE BAdd(Head(s), BSum(Tail(s)))

\* A quotient of two such naturals, and the order of two quotients.
QLe(p, q) == BLe(BMul(p[1], q[2]), BMul(q[1], p[2]))

\* m * 10^e m3, for e >= -9, in units of 1e-9 m3.
Vol(m, e) == BMul(BNat(m), BPow10(e + 9))
\* The 1e-9 of line 16: one unit.
MassEps == BNat(1)

NBins == 20

\* log_bins, lines 6-11: bin i (from 0) is [10^(-2 + i/4), 10^(-2 + (i+1)/4)).
\* For V = u * 1e-9:  10^(-2 + i/4) <= V  iff  u^4 >= 10^(i + 28).
Pow4(u) == BMul(BMul(u, u), BMul(u, u))
AtLeastBinLo(u, i) == BLe(BPow10(i + 28), Pow4(u))
BelowBinHi(u, i) == BLt(Pow4(u), BPow10(i + 29))

\* Lines 18-22: the bin of a block.
BinIndex(u) ==
    LET hits == {i \in 0..(NBins - 1) : AtLeastBinLo(u, i) /\ BelowBinHi(u, i)}
    IN  IF hits # {} THEN CHOOSE i \in hits : \A j \in hits : i <= j
        ELSE IF AtLeastBinLo(u, NBins - 1) THEN NBins - 1 ELSE 0

\* Longest block list given to distributions_from_blocks.
MaxBinBlocks == 2

\* Volumes of the blocks: 1e-6 (the floor of PrimaryBlock.V), 1.25e-4 (three
\* dimensions at their floor 0.05), 0.001 (below the first bin), 0.01 and 1
\* (lower edges of bins 0 and 8), 3, 600 (last bin) and 5000 (above it).
BinVolumes ==
    { Vol(1, -6), Vol(125, -6), Vol(1, -3), Vol(1, -2), Vol(1, 0), Vol(3, 0),
      Vol(6, 2), Vol(5, 3) }
DbInputs == SeqUpTo(BinVolumes, MaxBinBlocks)

RECURSIVE SumInts(_)
SumInts(s) == IF s = <<>> THEN 0 ELSE Head(s) + SumInts(Tail(s))

DbIdle ==
    /\ db_pc = "idle" /\ db_blocks = <<>> /\ db_i = 0 /\ db_freq = <<>>
    /\ db_mass = <<>> /\ db_total = <<>> /\ db_j = 0 /\ db_fc = 0 /\ db_mc = <<>>
    /\ db_cum_freq = <<>> /\ db_cum_mass = <<>>

\* Lines 14-16.
DbInit ==
    /\ db_pc = "bin" /\ db_blocks \in DbInputs /\ db_i = 0
    /\ db_freq = [k \in 1..NBins |-> 0]
    /\ db_mass = [k \in 1..NBins |-> <<>>]
    /\ db_total = BAdd(BSum(db_blocks), MassEps)
    /\ db_j = 0 /\ db_fc = 0 /\ db_mc = <<>>
    /\ db_cum_freq = <<>> /\ db_cum_mass = <<>>

\* Lines 17-23: one block is put in its bin.
DbBinBlock ==
    /\ DbFrame
    /\ db_pc = "bin" /\ db_i < Len(db_blocks)
    /\ LET V == db_blocks[db_i + 1]
           idx == BinIndex(V)
       IN  /\ db_freq' = [db_freq EXCEPT ![idx + 1] = @ + 1]
           /\ db_mass' = [db_mass EXCEPT ![idx + 1] = BAdd(@, V)]
    /\ db_i' = db_i + 1
    /\ UNCHANGED <<db_pc, db_blocks, db_total, db_j, db_fc, db_mc, db_cum_freq,
                   db_cum_mass>>

\* Lines 24-25.
DbCumStart ==
    /\ DbFrame
    /\ db_pc = "bin" /\ db_i >= Len(db_blocks)
    /\ db_pc' = "cum"
    /\ UNCHANGED <<db_blocks, db_i, db_freq, db_mass, db_total, db_j, db_fc,
                   db_mc, db_cum_freq, db_cum_mass>>

\* Lines 26-29: one bin of the cumulative loop.  cum_mass is kept as the
\* quotient (100 * mc, total_mass).
DbCumStep ==
    /\ DbFrame
    /\ db_pc = "cum" /\ db_j < NBins
    /\ db_fc' = db_fc + db_freq[db_j + 1]
    /\ db_mc' = BAdd(db_mc, db_mass[db_j + 1])
    /\ db_cum_freq' = Append(db_cum_freq,
            Rat(100 * db_fc', IF Len(db_blocks) > 1 THEN Len(db_blocks) ELSE 1))
    /\ db_cum_mass' = Append(db_cum_mass, <<BMulDigit(db_mc', 100), db_total>>)
    /\ db_j' = db_j + 1
    /\ UNCHANGED <<db_pc, db_blocks, db_i, db_freq, db_mass, db_total>>

\* Lines 33-39.
DbReturn ==
    /\ DbFrame
    /\ db_pc = "cum" /\ db_j >= NBins
    /\ db_pc' = "done"
    /\ UNCHANGED <<db_blocks, db_i, db_freq, db_mass, db_total, db_j, db_fc,
                   db_mc, db_cum_freq, db_cum_mass>>

DbNext == DbBinBlock \/ DbCumStart \/ DbCumStep \/ DbReturn

(***************************************************************************)
(* src/engine/hangup.py.  Two invocations of an estimator are followed     *)
(* together, each step of one interleaved with the steps of the other and  *)
(* with the user interface drawing Monte Carlo seeds from the generator of *)
(* the random module (src/ui/app.py, line 1537).                           *)
(***************************************************************************)
Calls == {1, 2}
\* Generator objects: 0 is the module-level generator of random, c is the r
\* that invocation c builds.
Generators == {0} \cup Calls
Seeds == {1234, 7}

\* Longest block list given to orepass_hangups.
MaxOreBlocks == 3

\* Roots of the perfect cubes and squares that the block lists give.
ICbrt(n) == CHOOSE k \in 0..n : k * k * k = n
RCbrt(x) == Rat(ICbrt(x[1]), ICbrt(x[2]))
RSqrt(x) == Rat(ISqrt(x[1]), ISqrt(x[2]))

\* estimate_block_width_length, lines 7-13: <<width, length>>.
estimate_block_width_length(V, Omega) ==
    LET s == RCbrt(V)
        area == RMul(s, s)
        r == RAdd(One, RMax(Zero, RDiv(RSub(Omega, One), Rat(67, 100))))
        length == RSqrt(RMax(Rat(1, 1000000), RMul(r, area)))
        width == RMax(Rat(1, 1000000), RDiv(area, length))
    IN  <<width, length>>

\* Blocks: a cube of side 1, and a block of volume 8 with footprint 1 x 4.
HangBlocks ==
    { SecondaryBlock(One, One, 0), SecondaryBlock(RInt(8), Rat(301, 100), 1) }
BellWidths == {Half, Rat(6, 5), RInt(5)}

OhCall(blocks, bell_width, seed) ==
    [blocks |-> blocks, bell_width |-> bell_width, seed |-> seed]

\* The generator a call draws from: the one it builds at line 16.
\* Mutant of Rng: every call seeds and draws from the module-level generator.
Rng_ModuleLevel(c) == 0
Rng(c) == c

\* random.Random(seed): a generator at the start of the stream of its seed.
NewGenerator(seed) == [seed |-> seed, pos |-> 0]

\* gen.random() = u: the value at the generator's position in the stream of
\* its seed (fixed by the first generator that reaches the position), and
\* the generator moves on.
Random(g, u) ==
    LET key == gen[g].seed
        p == gen[g].pos
    IN  /\ u \in URand
        /\ IF p < Len(rnd[key])
           THEN u = rnd[key][p + 1] /\ rnd' = rnd
           ELSE rnd' = [rnd EXCEPT ![key] = Append(@, u)]
        /\ gen' = [gen EXCEPT ![g].pos = RngStep(p)]

\* The generators before any call: only the module-level one exists.
RngInit ==
    /\ gen = [g \in Generators |-> NewGenerator(0)]
    /\ rnd = [s \in Seeds |-> <<>>]

\* Line 1537 of app.py: random.randint on the module-level generator.
UiRandint ==
    /\ gen' = [gen EXCEPT ![0].pos = RngStep(@)]
    /\ UNCHANGED <<rnd, vars_sec, vars_ss, vars_gp, vars_db, vars_oh, vars_kh, vars_mc, vars_pf, vars_wr>>

\* Lines 27-28: the inner while loop from block i with the given span;
\* <<i, span>> when it exits.
RECURSIVE Accumulate(_, _, _, _)
Accumulate(widths, i, span, bell_width) ==
    IF i < Len(widths) /\ RLe(span, bell_width)
    THEN Accumulate(widths, i + 1, RAdd(span, widths[i + 1]), bell_width)
    ELSE <<i, span>>

\* Mutant of ArchProb: an arch of fewer than 3 blocks forms with
\* probability 0.95.
ArchProb_Under3(cnt) ==
    IF cnt <= 3 THEN Rat(95, 100)
    ELSE IF cnt = 4 THEN Rat(50, 100)
    ELSE IF cnt = 5 THEN Rat(5, 100)
    ELSE Zero
\* Lines 33-37.
ArchProb(cnt) ==
    IF cnt < 3 THEN One
    ELSE IF cnt = 3 THEN Rat(95, 100)
    ELSE IF cnt = 4 THEN Rat(50, 100)
    ELSE IF cnt = 5 THEN Rat(5, 100)
    ELSE Zero

OhIdle ==
    /\ oh_in = <<>> /\ oh_pc = [c \in Calls |-> "idle"]
    /\ oh_widths = [c \in Calls |-> <<>>] /\ oh_i = [c \in Calls |-> 0]
    /\ oh_high = [c \in Calls |-> 0] /\ oh_low = [c \in Calls |-> 0]
    /\ oh_tons = [c \in Calls |-> Zero]

\* Two calls on the same block list with the same seed, the bell width of
\* the second at least that of the first.
OhInit ==
    /\ \E blocks \in SeqUpTo(HangBlocks, MaxOreBlocks), sd \in Seeds,
          w1 \in BellWidths, w2 \in BellWidths :
          /\ RLe(w1, w2)
          /\ oh_in = [c \in Calls |-> OhCall(blocks, IF c = 1 THEN w1 ELSE w2, sd)]
    /\ oh_pc = [c \in Calls |-> "start"]
    /\ oh_widths = [c \in Calls |-> <<>>] /\ oh_i = [c \in Calls |-> 0]
    /\ oh_high = [c \in Calls |-> 0] /\ oh_low = [c \in Calls |-> 0]
    /\ oh_tons = [c \in Calls |-> Zero]

\* Line 16: r = random.Random(seed).
OhStart(c) ==
    /\ OhFrame
    /\ oh_pc[c] = "start"
    /\ gen' = [gen EXCEPT ![Rng(c)] = NewGenerator(oh_in[c].seed)]
    /\ oh_pc' = [oh_pc EXCEPT ![c] = "widths"]
    /\ UNCHANGED <<rnd, oh_in, oh_widths, oh_i, oh_high, oh_low, oh_tons>>

\* Lines 18-22: the width of the next block, swapped with its length when
\* r.random() < 0.5.
OhWidth(c) ==
    /\ OhFrame
    /\ oh_pc[c] = "widths" /\ Len(oh_widths[c]) < Len(oh_in[c].blocks)
    /\ LET b == oh_in[c].blocks[Len(oh_widths[c]) + 1]
           wl == estimate_block_width_length(b.V, b.Omega)
       IN  \E u \in URand :
              /\ Random(Rng(c), u)
              /\ oh_widths' = [oh_widths EXCEPT ![c] =
                    Append(@, IF RLt(u, Half) THEN wl[2] ELSE wl[1])]
    /\ UNCHANGED <<oh_in, oh_pc, oh_i, oh_high, oh_low, oh_tons>>

\* Mutant of OhArch: every overflow is a candidate, whatever the arch spans.
OhArch_NoSpanTest(c) ==
    /\ OhFrame
    /\ oh_pc[c] = "widths" /\ Len(oh_widths[c]) = Len(oh_in[c].blocks)
    /\ oh_i[c] < Len(oh_widths[c])
    /\ LET bell_width == oh_in[c].bell_width
           acc == Accumulate(oh_widths[c], oh_i[c], Zero, bell_width)
           i2 == acc[1]
           cnt == i2 - oh_i[c] - 1
           span == RSub(acc[2], oh_widths[c][i2])
           masses == [j \in 1..cnt |-> oh_in[c].blocks[oh_i[c] + j].V]
       IN  IF RLe(acc[2], bell_width)
           THEN /\ oh_pc' = [oh_pc EXCEPT ![c] = "done"]
                /\ oh_i' = [oh_i EXCEPT ![c] = i2]
                /\ UNCHANGED <<gen, rnd, oh_high, oh_low, oh_tons>>
           ELSE /\ oh_i' = [oh_i EXCEPT ![c] = i2]
                /\ oh_pc' = oh_pc
                /\ IF RLe(Zero, span)
                   THEN \E u \in URand :
                          /\ Random(Rng(c), u)
                          /\ IF RLt(u, ArchProb(cnt))
                             THEN /\ oh_tons' = [oh_tons EXCEPT ![c] =
                                                    RAdd(@, RSum(masses))]
                                  /\ oh_high' = [oh_high EXCEPT ![c] =
                                                    IF cnt <= 3 THEN @ + 1 ELSE @]
                                  /\ oh_low' = [oh_low EXCEPT ![c] =
                                                    IF cnt <= 3 THEN @ ELSE @ + 1]
                             ELSE UNCHANGED <<oh_high, oh_low, oh_tons>>
                   ELSE UNCHANGED <<gen, rnd, oh_high, oh_low, oh_tons>>
    /\ UNCHANGED <<oh_in, oh_widths>>
\* Lines 25-41: one iteration of the outer while loop.
OhArch(c) ==
    /\ OhFrame
    /\ oh_pc[c] = "widths" /\ Len(oh_widths[c]) = Len(oh_in[c].blocks)
    /\ oh_i[c] < Len(oh_widths[c])
    /\ LET bell_width == oh_in[c].bell_width
           acc == Accumulate(oh_widths[c], oh_i[c], Zero, bell_width)
           i2 == acc[1]
           cnt == i2 - oh_i[c] - 1
           span == RSub(acc[2], oh_widths[c][i2])
           masses == [j \in 1..cnt |-> oh_in[c].blocks[oh_i[c] + j].V]
       IN  IF RLe(acc[2], bell_width)
           THEN /\ oh_pc' = [oh_pc EXCEPT ![c] = "done"]
                /\ oh_i' = [oh_i EXCEPT ![c] = i2]
                /\ UNCHANGED <<gen, rnd, oh_high, oh_low, oh_tons>>
           ELSE /\ oh_i' = [oh_i EXCEPT ![c] = i2]
                /\ oh_pc' = oh_pc
                /\ IF RLe(RMul(Rat(8, 10), bell_width), span)
                   THEN \E u \in URand :
                          /\ Random(Rng(c), u)
                          /\ IF RLt(u, ArchProb(cnt))
                             THEN /\ oh_tons' = [oh_tons EXCEPT ![c] =
                                                    RAdd(@, RSum(masses))]
                                  /\ oh_high' = [oh_high EXCEPT ![c] =
                                                    IF cnt <= 3 THEN @ + 1 ELSE @]
                                  /\ oh_low' = [oh_low EXCEPT ![c] =
                                                    IF cnt <= 3 THEN @ ELSE @ + 1]
                             ELSE UNCHANGED <<oh_high, oh_low, oh_tons>>
                   ELSE UNCHANGED <<gen, rnd, oh_high, oh_low, oh_tons>>
    /\ UNCHANGED <<oh_in, oh_widths>>

\* Lines 25 and 42: the loop condition fails and the result is returned.
OhReturn(c) ==
    /\ OhFrame
    /\ oh_pc[c] = "widths" /\ Len(oh_widths[c]) = Len(oh_in[c].blocks)
    /\ oh_i[c] >= Len(oh_widths[c])
    /\ oh_pc' = [oh_pc EXCEPT ![c] = "done"]
    /\ UNCHANGED <<gen, rnd, oh_in, oh_widths, oh_i, oh_high, oh_low, oh_tons>>

OhNext ==
    \/ \E c \in Calls : OhStart(c)
    \/ \E c \in Calls : OhWidth(c)
    \/ \E c \in Calls : OhArch(c)
    \/ \E c \in Calls : OhReturn(c)

\* Mutant of KearBatch: batches of 26 blocks.
KearBatch_Plus1 == 25 + 1
\* len(batch) == 25, line 50 of kear_hangups.
KearBatch == 25
\* Longest block list given to kear_hangups, in batches.
MaxKearBatches == 2

BellAreas == {RInt(50), Rat(125, 2), RInt(300)}

\* A list of n blocks b.
Repeat(b, n) == [i \in 1..n |-> b]
\* Block lists of up to MaxKearBatches batches, one block less and one block
\* more: all alike, or alternating.
KearLengths ==
    UNION {{k * KearBatch - 1, k * KearBatch, k * KearBatch + 1} :
            k \in 1..MaxKearBatches}
KearLists ==
    {Repeat(b, n) : b \in HangBlocks, n \in KearLengths}
    \cup {[i \in 1..n |->
            IF i % 2 = 0 THEN SecondaryBlock(One, One, 0)
            ELSE SecondaryBlock(RInt(8), Rat(301, 100), 1)] : n \in KearLengths}

KhCall(blocks, bell_area, seed) ==
    [blocks |-> blocks, bell_area |-> bell_area, seed |-> seed]

KhIdle ==
    /\ kh_in = <<>> /\ kh_pc = [c \in Calls |-> "idle"]
    /\ kh_i = [c \in Calls |-> 0] /\ kh_batch = [c \in Calls |-> <<>>]
    /\ kh_high = [c \in Calls |-> 0] /\ kh_low = [c \in Calls |-> 0]
    /\ kh_tons = [c \in Calls |-> Zero]

\* Two calls on the same block list with the default seed (line 44), the
\* bell area of the second at least that of the first.
KhInit ==
    /\ \E blocks \in KearLists, a1 \in BellAreas, a2 \in BellAreas :
          /\ RLe(a1, a2)
          /\ kh_in = [c \in Calls |-> KhCall(blocks, IF c = 1 THEN a1 ELSE a2, 1234)]
    /\ kh_pc = [c \in Calls |-> "start"]
    /\ kh_i = [c \in Calls |-> 0] /\ kh_batch = [c \in Calls |-> <<>>]
    /\ kh_high = [c \in Calls |-> 0] /\ kh_low = [c \in Calls |-> 0]
    /\ kh_tons = [c \in Calls |-> Zero]

\* Line 45: r = random.Random(seed).
KhStart(c) ==
    /\ KhFrame
    /\ kh_pc[c] = "start"
    /\ gen' = [gen EXCEPT ![Rng(c)] = NewGenerator(kh_in[c].seed)]
    /\ kh_pc' = [kh_pc EXCEPT ![c] = "blocks"]
    /\ UNCHANGED <<rnd, kh_in, kh_i, kh_batch, kh_high, kh_low, kh_tons>>

\* Mutant of BatchIsHigh: the batch is high when its area is below the share.
BatchIsHigh_Below(areasum, bell_area) ==
    RLe(areasum, RMul(Rat(4, 10), bell_area))
\* Line 52.
BatchIsHigh(areasum, bell_area) ==
    RLe(RMul(Rat(4, 10), bell_area), areasum)

\* sum of the values lo..hi of a list, by halves; each half is a value
\* before the two are added.
RECURSIVE RSumRange(_, _, _)
RSumRange(f, lo, hi) ==
    IF lo > hi THEN Zero
    ELSE IF lo = hi THEN f[lo]
    ELSE LET mid == (lo + hi) \div 2
         IN  CHOOSE t \in {RAdd(a, b) : a \in {RSumRange(f, lo, mid)},
                                        b \in {RSumRange(f, mid + 1, hi)}} : TRUE

\* The stream of a seed after n more draws by a generator at position p:
\* the values not yet fixed are any values of URand.
StreamsAfter(stream, p, n) ==
    LET reach == IF p + n > RngPeriod THEN RngPeriod ELSE p + n
        more == IF reach > Len(stream) THEN reach - Len(stream) ELSE 0
    IN  {stream \o ext : ext \in [1..more -> URand]}

\* Lines 46-56: the iterations of the for loop that fill the batch (or reach
\* the end of the list), with the classification of a batch of 25 blocks.
\* Block j of the run takes the j-th draw; kh_batch is the list of
\* (area, V) left unclassified.
KhBatch(c) ==
    /\ KhFrame
    /\ kh_pc[c] = "blocks" /\ kh_i[c] < Len(kh_in[c].blocks)
    /\ LET g == Rng(c)
           key == gen[g].seed
           p == gen[g].pos
           rest == Len(kh_in[c].blocks) - kh_i[c]
           n == IF rest < KearBatch THEN rest ELSE KearBatch
       IN  \E stream \in StreamsAfter(rnd[key], p, n) :
              LET u(j) == stream[((p + j - 1) % RngPeriod) + 1]
                  blk(j) == kh_in[c].blocks[kh_i[c] + j]
                  wl(j) == estimate_block_width_length(blk(j).V, blk(j).Omega)
                  w(j) == IF RLt(u(j), Half) THEN wl(j)[2] ELSE wl(j)[1]
                  l(j) == IF RLt(u(j), Half) THEN wl(j)[1] ELSE wl(j)[2]
                  batch == [j \in 1..n |-> <<RMul(w(j), l(j)), blk(j).V>>]
                  areasum == RSumRange([j \in 1..n |-> batch[j][1]], 1, n)
              IN  /\ rnd' = [rnd EXCEPT ![key] = stream]
                  /\ gen' = [gen EXCEPT ![g].pos = (p + n) % RngPeriod]
                  /\ kh_i' = [kh_i EXCEPT ![c] = @ + n]
                  /\ IF n = KearBatch
                     THEN /\ kh_batch' = [kh_batch EXCEPT ![c] = <<>>]
                          /\ IF BatchIsHigh(areasum, kh_in[c].bell_area)
                             THEN /\ kh_tons' = [kh_tons EXCEPT ![c] =
                                        RAdd(@, RSumRange([j \in 1..n |-> batch[j][2]], 1, n))]
                                  /\ kh_high' = [kh_high EXCEPT ![c] = @ + 1]
                                  /\ kh_low' = kh_low
                             ELSE /\ kh_low' = [kh_low EXCEPT ![c] = @ + 1]
                                  /\ UNCHANGED <<kh_high, kh_tons>>
                     ELSE /\ kh_batch' = [kh_batch EXCEPT ![c] = batch]
                          /\ UNCHANGED <<kh_high, kh_low, kh_tons>>
    /\ UNCHANGED <<kh_in, kh_pc>>

\* Line 57.
KhReturn(c) ==
    /\ KhFrame
    /\ kh_pc[c] = "blocks" /\ kh_i[c] >= Len(kh_in[c].blocks)
    /\ kh_pc' = [kh_pc EXCEPT ![c] = "done"]
    /\ UNCHANGED <<gen, rnd, kh_in, kh_i, kh_batch, kh_high, kh_low, kh_tons>>

KhNext ==
    \/ \E c \in Calls : KhStart(c)
    \/ \E c \in Calls : KhBatch(c)
    \/ \E c \in Calls : KhReturn(c)

(***************************************************************************)
(* src/ui/app.py, MainWindow.on_run_monte_carlo.work, lines 1529-1691: the  *)
(* batch of runs x combinations tasks, their results consumed one by one,  *)
(* and the fallback from the process pool to the thread pool.  A task is   *)
(* its index in tasks; the label of a combination is its index in          *)
(* combination_specs.                                                      *)
(***************************************************************************)
\* Largest runs and largest number of combinations of a batch.
MaxRuns == 2
MaxCombos == 2
\* os.cpu_count() or 4.
CpuCounts == {1, 4}

McCall(runs, combos, cpus) == [runs |-> runs, combos |-> combos, cpus |-> cpus]
\* Line 1500.
TotalRuns(call) == call.runs * call.combos
\* Lines 1538-1543: tasks, and the label of the spec of task t.
Tasks(call) == 1..TotalRuns(call)
LabelOf(call, t) == ((t - 1) \div call.runs) + 1
\* Line 1536.
MaxWorkers(call) ==
    LET m == IF TotalRuns(call) < call.cpus THEN TotalRuns(call) ELSE call.cpus
    IN  IF m < 1 THEN 1 ELSE m

McFrame ==
    UNCHANGED <<vars_sec, vars_ss, vars_gp, vars_db, vars_oh, vars_kh, vars_pf, vars_wr>>

McIdle ==
    /\ mc_in = <<>> /\ mc_pc = "idle" /\ mc_futs = {} /\ mc_raises = {}
    /\ mc_results = <<>> /\ mc_order = <<>> /\ mc_info = <<>>

\* Lines 1530-1534.
McInit ==
    /\ \E runs \in 1..MaxRuns, combos \in 1..MaxCombos, cpus \in CpuCounts :
          /\ mc_in = McCall(runs, combos, cpus)
          /\ mc_results = [label \in 1..combos |-> <<>>]
    /\ mc_pc = "start" /\ mc_futs = {} /\ mc_raises = {}
    /\ mc_order = <<>> /\ mc_info = <<>>

\* Lines 1545-1551: consume_result for the result of task t.
consume_result(t) ==
    LET label == LabelOf(mc_in, t)
    IN  /\ mc_order' = IF label \in Range(mc_order) THEN mc_order
                       ELSE Append(mc_order, label)
        /\ mc_results' = [mc_results EXCEPT ![label] = Append(@, t)]

\* Lines 1536-1543 and 1553, 1560-1572: the seeds are drawn from the
\* module-level generator, one per task; the seed of a task decides whether
\* its worker raises; in a pool every task is submitted.
McStart ==
    /\ McFrame
    /\ mc_pc = "start"
    /\ gen' = [gen EXCEPT ![0].pos = (@ + TotalRuns(mc_in)) % RngPeriod]
    /\ \E raises \in SUBSET Tasks(mc_in) : mc_raises' = raises
    /\ mc_futs' = Tasks(mc_in)
    /\ mc_pc' = IF MaxWorkers(mc_in) = 1 THEN "serial" ELSE "process"
    /\ UNCHANGED <<rnd, mc_in, mc_results, mc_order, mc_info>>

\* The first task not yet run.
NextTask == CHOOSE t \in mc_futs : \A u \in mc_futs : t <= u

\* Lines 1554-1558: the next task run in place, its result consumed.
McSerialResult ==
    /\ McFrame
    /\ mc_pc = "serial" /\ mc_futs # {} /\ NextTask \notin mc_raises
    /\ consume_result(NextTask)
    /\ mc_futs' = mc_futs \ {NextTask}
    /\ UNCHANGED <<gen, rnd, mc_in, mc_pc, mc_raises, mc_info>>

\* Lines 1555-1557: the worker raises and the exception leaves work.
McSerialRaise ==
    /\ McFrame
    /\ mc_pc = "serial" /\ mc_futs # {} /\ NextTask \in mc_raises
    /\ mc_pc' = "raised"
    /\ UNCHANGED <<gen, rnd, mc_in, mc_futs, mc_raises, mc_results, mc_order, mc_info>>

\* Lines 1573-1575: a future of the process pool completes with a result.
McProcessResult ==
    /\ McFrame
    /\ mc_pc = "process"
    /\ \E t \in mc_futs \ mc_raises :
          /\ consume_result(t)
          /\ mc_futs' = mc_futs \ {t}
    /\ UNCHANGED <<gen, rnd, mc_in, mc_pc, mc_raises, mc_info>>

\* Lines 1574 and 1576-1592: fut.result() raises the worker's exception; the
\* handler submits every task to a thread pool.
McProcessRaise ==
    /\ McFrame
    /\ mc_pc = "process"
    /\ mc_futs \cap mc_raises # {}
    /\ mc_pc' = "threads"
    /\ mc_futs' = Tasks(mc_in)
    /\ UNCHANGED <<gen, rnd, mc_in, mc_raises, mc_results, mc_order, mc_info>>

\* Lines 1559-1592: the process pool cannot start, or a worker process ends
\* abruptly and the pending futures raise BrokenProcessPool; the handler
\* submits every task to a thread pool.
McPoolBroken ==
    /\ McFrame
    /\ mc_pc = "process"
    /\ mc_futs # {}
    /\ mc_pc' = "threads"
    /\ mc_futs' = Tasks(mc_in)
    /\ UNCHANGED <<gen, rnd, mc_in, mc_raises, mc_results, mc_order, mc_info>>

\* Lines 1595-1597: a future of the thread pool completes with a result.
McThreadResult ==
    /\ McFrame
    /\ mc_pc = "threads"
    /\ \E t \in mc_futs \ mc_raises :
          /\ consume_result(t)
          /\ mc_futs' = mc_futs \ {t}
    /\ UNCHANGED <<gen, rnd, mc_in, mc_pc, mc_raises, mc_info>>

\* Line 1596: fut.result() raises the worker's exception, which leaves work.
McThreadRaise ==
    /\ McFrame
    /\ mc_pc = "threads"
    /\ mc_futs \cap mc_raises # {}
    /\ mc_pc' = "raised"
    /\ UNCHANGED <<gen, rnd, mc_in, mc_futs, mc_raises, mc_results, mc_order, mc_info>>

\* Lines 1599-1689: every result is consumed; info["combinations"] gives
\* the number of runs folded per label, in combo_order.
McReduce ==
    /\ McFrame
    /\ mc_pc \in {"serial", "process", "threads"} /\ mc_futs = {}
    /\ mc_pc' = "done"
    /\ mc_info' = [i \in 1..Len(mc_order) |->
                     [label |-> mc_order[i],
                      runs |-> Len(mc_results[mc_order[i]])]]
    /\ UNCHANGED <<gen, rnd, mc_in, mc_futs, mc_raises, mc_results, mc_order>>

McNext ==
    \/ McStart
    \/ McSerialResult \/ McSerialRaise
    \/ McProcessResult \/ McProcessRaise \/ McPoolBroken
    \/ McThreadResult \/ McThreadRaise
    \/ McReduce

(***************************************************************************)
(* Pure functions of src/engine/strength.py and src/engine/secondary.py,   *)
(* each called twice on arguments of its own.                              *)
(***************************************************************************)
PfFrame ==
    UNCHANGED <<vars_sec, vars_ss, vars_gp, vars_db, vars_rng, vars_oh, vars_kh,
                vars_mc, vars_wr>>

PfIdle ==
    /\ pf_fn = "none" /\ pf_args = <<>> /\ pf_ret = <<>>
    /\ pf_pc = [c \in Calls |-> "idle"]

\* The calls of function fn on the argument lists of Args.
PfCalled(fn, Args) ==
    /\ pf_fn = fn /\ pf_args \in [Calls -> Args]
    /\ pf_pc = [c \in Calls |-> "called"]
    /\ pf_ret = [c \in Calls |-> <<>>]

\* Call c returns v.
PfReturn(c, v) ==
    /\ pf_pc[c] = "called"
    /\ pf_ret' = [pf_ret EXCEPT ![c] = v]
    /\ pf_pc' = [pf_pc EXCEPT ![c] = "returned"]
    /\ UNCHANGED <<pf_fn, pf_args>>

\* IRS_to_IRSR, lines 12-20 of strength.py.
IrsrBins ==
    << <<185, 20>>, <<165, 18>>, <<145, 16>>, <<125, 14>>, <<104, 12>>,
       <<85, 10>>, <<65, 8>>, <<45, 6>>, <<25, 4>>, <<5, 2>>, <<0, 0>> >>
\* Mutant of IRS_to_IRSR: a threshold is reached when IRS equals it.
IRS_to_IRSR_AtThreshold(IRS) ==
    LET hit == {i \in DOMAIN IrsrBins : RLe(RInt(IrsrBins[i][1]), IRS)}
    IN  IF hit # {} THEN IrsrBins[MinOf(hit)][2] ELSE 0
IRS_to_IRSR(IRS) ==
    LET hit == {i \in DOMAIN IrsrBins : RLt(RInt(IrsrBins[i][1]), IRS)}
    IN  IF hit # {} THEN IrsrBins[MinOf(hit)][2] ELSE 0

\* IRS values: every threshold, half a unit above each, and values outside.
IrsValues ==
    {RInt(IrsrBins[i][1]) : i \in DOMAIN IrsrBins}
    \cup {Rat(2 * IrsrBins[i][1] + 1, 2) : i \in DOMAIN IrsrBins}
    \cup {RInt(-3), RInt(130), RInt(500)}

IrsrInit == PfCalled("IRS_to_IRSR", {<<x>> : x \in IrsValues})
IrsrCall(c) ==
    /\ PfFrame
    /\ pf_fn = "IRS_to_IRSR"
    /\ PfReturn(c, IRS_to_IRSR(pf_args[c][1]))

\* compute_IBS on IRS > 0, any frac_freq and any frac_condition.
IbsArgs ==
    {<<irs, ff, fc>> : irs \in {One, RInt(120)},
                       ff \in {RInt(-1), Zero, RInt(3), RInt(6), RInt(20)},
                       fc \in {-5, 0, 20, 50}}
IbsInit == PfCalled("compute_IBS", IbsArgs)
IbsCall(c) ==
    /\ PfFrame
    /\ pf_fn = "compute_IBS"
    /\ PfReturn(c, compute_IBS(pf_args[c][1], pf_args[c][2], pf_args[c][3]))

\* split_prob_from_Omega on Omega at, between and beyond the breakpoints.
OmegaValues ==
    {RInt(k) : k \in 1..11} \cup {Rat(2 * k + 1, 2) : k \in 1..10}
    \cup {Rat(999, 1000), Rat(100001, 10000), RInt(50)}
SplitArgs == {<<om, wj>> : om \in OmegaValues, wj \in BOOLEAN}
SplitInit == PfCalled("split_prob_from_Omega", SplitArgs)
SplitCall(c) ==
    /\ PfFrame
    /\ pf_fn = "split_prob_from_Omega"
    /\ PfReturn(c, split_prob_from_Omega(pf_args[c][1], pf_args[c][2]))

\* cave_pressure_MPa, lines 14-35 of secondary.py.  Line 18: the table.
PressurePairs ==
    << <<One, Rat(44, 100)>>, <<Half, Rat(30, 100)>>, <<Rat(1, 3), Rat(23, 100)>>,
       <<Rat(1, 4), Rat(20, 100)>>, <<Rat(1, 5), Rat(18, 100)>> >>
\* Line 19: sorted(pairs, key=lambda x: x[0]), ascending ratios.
SortedByRatio(pairs) ==
    LET n == Len(pairs)
        p == CHOOSE q \in [1..n -> 1..n] :
                \A i \in 1..(n - 1) : RLt(pairs[q[i]][1], pairs[q[i + 1]][1])
    IN  [i \in 1..n |-> pairs[p[i]]]
SortedPairs == SortedByRatio(PressurePairs)
\* Lines 20-32: the fraction for a ratio.
PressureFraction(ratio) ==
    LET pairs == SortedPairs
        n == Len(pairs)
        hit == {i \in 1..(n - 1) :
                  RLe(pairs[i + 1][1], ratio) /\ RLe(ratio, pairs[i][1])}
    IN  IF RLe(pairs[1][1], ratio) THEN pairs[1][2]
        ELSE IF RLe(ratio, pairs[n][1]) THEN pairs[n][2]
        ELSE IF hit = {} THEN pairs[n][2]
        ELSE LET i == MinOf(hit)
                 r0 == pairs[i + 1][1]
                 f0 == pairs[i + 1][2]
                 r1 == pairs[i][1]
                 f1 == pairs[i][2]
                 t == RDiv(RSub(ratio, r0), RSub(r1, r0))
             IN  RAdd(f0, RMul(t, RSub(f1, f0)))
\* Lines 15-17 and 33-35: the fraction used and the pressure, the latter in
\* units of G_MPAPER_M (line 8); no fraction is used when Hc <= 0.
cave_pressure_MPa(density, Hc, width, swell_factor) ==
    IF RLe(Hc, Zero) THEN [frac |-> Zero, P |-> Zero]
    ELSE LET ratio == RMax(Rat(1, 1000000), RDiv(width, Hc))
             frac == PressureFraction(ratio)
             F == RMax(One, swell_factor)
             rho_broken == RDiv(density, F)
         IN  [frac |-> frac, P |-> RMul(RMul(frac, rho_broken), Hc)]

\* Draw widths that give the table ratios of a caved height of 60 m, and
\* ratios between and beyond them.
PressureArgs ==
    {<<RInt(3200), hc, RInt(w), sw>> :
        hc \in {Zero, RInt(60)},
        w \in {6, 12, 15, 20, 24, 30, 45, 60, 120},
        sw \in {One, Rat(6, 5)}}
PressureInit == PfCalled("cave_pressure_MPa", PressureArgs)
PressureCall(c) ==
    /\ PfFrame
    /\ pf_fn = "cave_pressure_MPa"
    /\ PfReturn(c, cave_pressure_MPa(pf_args[c][1], pf_args[c][2],
                                     pf_args[c][3], pf_args[c][4]))

(***************************************************************************)
(* write_prm and write_sec of src/engine/io_formats.py, lines 41-85.  A     *)
(* line of the file is its kind, the block or bin it is about (0 for the   *)
(* others), the fields it prints, in order, with literal fields given as   *)
(* they are printed, and the value of the stats line's fourth field.       *)
(***************************************************************************)
\* Longest block list written.
MaxWriteBlocks == 3

Line(kind, of, fields, val) ==
    [kind |-> kind, of |-> of, fields |-> fields, val |-> val]

WrCall(n, ratio) == [n |-> n, ratio |-> ratio]

WrFrame ==
    UNCHANGED <<vars_sec, vars_ss, vars_gp, vars_db, vars_rng, vars_oh, vars_kh,
                vars_mc, vars_pf>>

WrIdle ==
    /\ wr_fn = "none" /\ wr_in = <<>> /\ wr_pc = "idle" /\ wr_i = 0
    /\ wr_lines = <<>>

\* Lines 42-45 and 63-70: the statistics are computed and the file is
\* opened; write_sec takes ratio_from_first_file, 1.0 unless given.
WrInit ==
    /\ \E n \in 0..MaxWriteBlocks :
          \/ wr_fn = "write_prm" /\ wr_in = WrCall(n, Zero)
          \/ wr_fn = "write_sec" /\ \E r \in {One, Half} : wr_in = WrCall(n, r)
    /\ wr_pc = "blocks" /\ wr_i = 0 /\ wr_lines = <<>>

\* Line 47 and line 72.
BlockLine(fn, k) ==
    IF fn = "write_prm"
    THEN Line("block", k, <<"V", "Omega", "joints_inside", "A", "lambda_max">>, Zero)
    ELSE Line("block", k, <<"V", "Omega", "joints_inside">>, Zero)
\* Lines 48 and 73.
TerminatorLine == Line("terminator", 0, <<"-1.0", "-1.0", "0">>, Zero)
\* Lines 50 and 75.
SummaryLine(fn) ==
    Line("summary", 0,
         <<"rock_type", "len", IF fn = "write_prm" THEN "0" ELSE "1", "IRS",
           "IBS", "RMS", "mass_pct_lt2", "primary_fines_ratio">>, Zero)
\* Lines 51 and 76.
CaveLine ==
    Line("cave", 0,
         <<"dip", "dip_dir", "stress_dip", "stress_strike", "stress_normal">>, Zero)
\* Lines 52 and 77.
StatsLine(fn, ratio) ==
    IF fn = "write_prm"
    THEN Line("stats", 0, <<"max_volume", "avg_volume", "avg_omega", "0.0">>, Zero)
    ELSE Line("stats", 0,
              <<"max_volume", "avg_volume", "avg_omega", "ratio_from_first_file">>,
              ratio)
\* Mutant of BinLines: cum_freq and cum_mass are written once.
BinLines_NoRepeat(i) ==
    << Line("freq_counts", i, <<"freq_counts">>, Zero),
       Line("mass_counts", i, <<"mass_counts">>, Zero),
       Line("cum_freq", i, <<"cum_freq">>, Zero),
       Line("cum_mass", i, <<"cum_mass">>, Zero),
       Line("linear_cum_mass", i, <<"linear_cum_mass">>, Zero) >>
\* Lines 54-60 and 79-85: the lines of bin i.
BinLines(i) ==
    << Line("freq_counts", i, <<"freq_counts">>, Zero),
       Line("mass_counts", i, <<"mass_counts">>, Zero),
       Line("cum_freq", i, <<"cum_freq">>, Zero),
       Line("cum_mass", i, <<"cum_mass">>, Zero),
       Line("linear_cum_mass", i, <<"linear_cum_mass">>, Zero),
       Line("cum_freq", i, <<"cum_freq">>, Zero),
       Line("cum_mass", i, <<"cum_mass">>, Zero) >>

\* Lines 46-47 and 71-72: the line of the next block.
WrBlock ==
    /\ WrFrame
    /\ wr_pc = "blocks" /\ wr_i < wr_in.n
    /\ wr_lines' = Append(wr_lines, BlockLine(wr_fn, wr_i + 1))
    /\ wr_i' = wr_i + 1
    /\ UNCHANGED <<wr_fn, wr_in, wr_pc>>

\* Lines 48 and 73.
WrTerminator ==
    /\ WrFrame
    /\ wr_pc = "blocks" /\ wr_i >= wr_in.n
    /\ wr_lines' = Append(wr_lines, TerminatorLine)
    /\ wr_pc' = "summary"
    /\ UNCHANGED <<wr_fn, wr_in, wr_i>>

\* Lines 49-50 and 74-75.
WrSummary ==
    /\ WrFrame
    /\ wr_pc = "summary"
    /\ wr_lines' = Append(wr_lines, SummaryLine(wr_fn))
    /\ wr_pc' = "cave"
    /\ UNCHANGED <<wr_fn, wr_in, wr_i>>

\* Lines 51 and 76.
WrCave ==
    /\ WrFrame
    /\ wr_pc = "cave"
    /\ wr_lines' = Append(wr_lines, CaveLine)
    /\ wr_pc' = "stats"
    /\ UNCHANGED <<wr_fn, wr_in, wr_i>>

\* Lines 52 and 77.
WrStats ==
    /\ WrFrame
    /\ wr_pc = "stats"
    /\ wr_lines' = Append(wr_lines, StatsLine(wr_fn, wr_in.ratio))
    /\ wr_pc' = "bins" /\ wr_i' = 0
    /\ UNCHANGED <<wr_fn, wr_in>>

\* Lines 53-60 and 78-85: one iteration of for i in range(20).
WrBin ==
    /\ WrFrame
    /\ wr_pc = "bins" /\ wr_i < NBins
    /\ wr_lines' = wr_lines \o BinLines(wr_i)
    /\ wr_i' = wr_i + 1
    /\ UNCHANGED <<wr_fn, wr_in, wr_pc>>

\* The with block ends and the file is closed.
WrClose ==
    /\ WrFrame
    /\ wr_pc = "bins" /\ wr_i >= NBins
    /\ wr_pc' = "closed"
    /\ UNCHANGED <<wr_fn, wr_in, wr_i, wr_lines>>

WrNext ==
    WrBlock \/ WrTerminator \/ WrSummary \/ WrCave \/ WrStats \/ WrBin \/ WrClose

\* maybe_add_stress_fracture_set as generate_primary_blocks calls it (line
\* 82), on stress ratios F below, at, between and beyond the table points.
StressRatios ==
    {StressTable[i][1] : i \in DOMAIN StressTable}
    \cup {RMul(Half, RAdd(StressTable[i][1], StressTable[i + 1][1])) :
            i \in 1..(Len(StressTable) - 1)}
    \cup {Zero, Rat(1, 20), Rat(199, 100), RInt(3)}
StressArgs ==
    {<<RockF(One), CaveFace(Zero, F, Zero, TRUE)>> : F \in StressRatios}
    \cup { <<RockF(One), CaveFace(Rat(3, 10), Rat(2, 10), Half, TRUE)>>,
           <<RockF(One), CaveFace(Rat(3, 10), Rat(2, 10), Half, FALSE)>>,
           <<RockF(RInt(2)), CaveFace(One, RInt(3), Zero, TRUE)>>,
           <<RockComputed, CaveFace(RInt(96), RInt(48), Zero, TRUE)>>,
           <<RockComputed, CaveFace(RInt(5), RInt(5), Zero, TRUE)>>,
           <<RockComputed, CaveFace(RInt(100), RInt(100), RInt(100), TRUE)>>,
           <<RockF(Zero), CaveFace(One, One, Zero, TRUE)>>,
           <<RockF(RInt(-1)), CaveFace(One, One, Zero, TRUE)>> }
StressInit == PfCalled("maybe_add_stress_fracture_set", StressArgs)
StressCall(c) ==
    /\ PfFrame
    /\ pf_fn = "maybe_add_stress_fracture_set"
    /\ PfReturn(c, StressSets(pf_args[c][1], pf_args[c][2]))

(***************************************************************************)
(* Specifications.                                                         *)
(***************************************************************************)
InitSecondary ==
    /\ SecInit
    /\ SsIdle /\ GpIdle /\ DbIdle /\ RngInit /\ OhIdle /\ KhIdle /\ McIdle /\ PfIdle /\ WrIdle
SpecSecondary == InitSecondary /\ [][SecNext]_vars

InitSampler ==
    /\ SsInit
    /\ SecIdle /\ GpIdle /\ DbIdle /\ RngInit /\ OhIdle /\ KhIdle /\ McIdle /\ PfIdle /\ WrIdle
SpecSampler == InitSampler /\ [][SsNext]_vars

InitPrimary ==
    /\ GpInit
    /\ SecIdle /\ SsIdle /\ DbIdle /\ RngInit /\ OhIdle /\ KhIdle /\ McIdle /\ PfIdle /\ WrIdle
SpecPrimary == InitPrimary /\ [][GpNext]_vars

InitBins ==
    /\ DbInit
    /\ SecIdle /\ SsIdle /\ GpIdle /\ RngInit /\ OhIdle /\ KhIdle /\ McIdle /\ PfIdle /\ WrIdle
SpecBins == InitBins /\ [][DbNext]_vars

InitOrepass ==
    /\ OhInit
    /\ RngInit /\ SecIdle /\ SsIdle /\ GpIdle /\ DbIdle /\ KhIdle /\ McIdle /\ PfIdle /\ WrIdle
SpecOrepass == InitOrepass /\ [][OhNext]_vars

InitKear ==
    /\ KhInit
    /\ RngInit /\ SecIdle /\ SsIdle /\ GpIdle /\ DbIdle /\ OhIdle /\ McIdle /\ PfIdle /\ WrIdle
SpecKear == InitKear /\ [][KhNext]_vars

\* Two calls of one estimator with equal arguments, while the user
\* interface draws from the module-level generator.
EqualOhInit ==
    /\ OhInit /\ oh_in[1] = oh_in[2]
EqualKhInit ==
    /\ KhInit /\ kh_in[1] = kh_in[2]
    /\ Len(kh_in[1].blocks) <= KearBatch + 1
InitCalls ==
    /\ RngInit /\ SecIdle /\ SsIdle /\ GpIdle /\ DbIdle /\ McIdle /\ PfIdle /\ WrIdle
    /\ \/ EqualOhInit /\ KhIdle
       \/ EqualKhInit /\ OhIdle
CallsNext ==
    \/ \E c \in Calls : OhStart(c)
    \/ \E c \in Calls : OhWidth(c)
    \/ \E c \in Calls : OhArch(c)
    \/ \E c \in Calls : OhReturn(c)
    \/ \E c \in Calls : KhStart(c)
    \/ \E c \in Calls : KhBatch(c)
    \/ \E c \in Calls : KhReturn(c)
    \/ UiRandint
SpecCalls == InitCalls /\ [][CallsNext]_vars

InitMonteCarlo ==
    /\ McInit
    /\ RngInit /\ SecIdle /\ SsIdle /\ GpIdle /\ DbIdle /\ OhIdle /\ KhIdle
    /\ PfIdle /\ WrIdle
SpecMonteCarlo == InitMonteCarlo /\ [][McNext]_vars

InitIRSR ==
    /\ IrsrInit
    /\ RngInit /\ SecIdle /\ SsIdle /\ GpIdle /\ DbIdle /\ OhIdle /\ KhIdle /\ McIdle /\ WrIdle
IrsrNext == \E c \in Calls : IrsrCall(c)
SpecIRSR == InitIRSR /\ [][IrsrNext]_vars

InitIBS ==
    /\ IbsInit
    /\ RngInit /\ SecIdle /\ SsIdle /\ GpIdle /\ DbIdle /\ OhIdle /\ KhIdle /\ McIdle /\ WrIdle
IbsNext == \E c \in Calls : IbsCall(c)
SpecIBS == InitIBS /\ [][IbsNext]_vars

InitSplitProb ==
    /\ SplitInit
    /\ RngInit /\ SecIdle /\ SsIdle /\ GpIdle /\ DbIdle /\ OhIdle /\ KhIdle /\ McIdle /\ WrIdle
SplitNext == \E c \in Calls : SplitCall(c)
SpecSplitProb == InitSplitProb /\ [][SplitNext]_vars

InitPressure ==
    /\ PressureInit
    /\ RngInit /\ SecIdle /\ SsIdle /\ GpIdle /\ DbIdle /\ OhIdle /\ KhIdle /\ McIdle /\ WrIdle
PressureNext == \E c \in Calls : PressureCall(c)
SpecPressure == InitPressure /\ [][PressureNext]_vars

InitWrite ==
    /\ WrInit
    /\ RngInit /\ SecIdle /\ SsIdle /\ GpIdle /\ DbIdle /\ OhIdle /\ KhIdle /\ McIdle /\ PfIdle
SpecWrite == InitWrite /\ [][WrNext]_vars

\* The calls that reach sample_lognormal_capped, under a fair random source:
\* the call keeps running while it can, and a draw at or below the cap,
\* possible again and again, is eventually made.
InitLognormal == InitSampler /\ ss_dist.type = "lognormal"
LognormalNext == SsLognormalEnter \/ SsLognormalAccept \/ SsLognormalReject
FairSpecLognormal ==
    /\ InitLognormal /\ [][LognormalNext]_vars
    /\ WF_vars(LognormalNext) /\ SF_vars(SsLognormalAccept)

\* Sum of V over a list of blocks.
MassOf(blocks) == RSum([i \in 1..Len(blocks) |-> blocks[i].V])

(***************************************************************************)
(* C1: mass conservation in run_secondary.  When run_secondary has         *)
(* returned, the sum of V over the returned secondary blocks plus          *)
(* sec_fines_mass (the numerator of the returned ratio) equals the sum of  *)
(* V over the input primary blocks.                                        *)
(***************************************************************************)
C1_MassConservation ==
    sec_pc = "done" =>
        RAdd(MassOf(sec_out), sec_ratio[1]) = MassOf(sec_prim)

\* A run in which a piece split in the worklist (fines were removed) and the
\* arching post-process split a block as well.
C1_Witness ==
    /\ sec_pc = "done"
    /\ RLt(Zero, sec_fines)
    /\ sec_nsplit > 0
    /\ Len(sec_prim) = MaxPrimBlocks
\* min < mean < max, as given.
ValidDist(d) == RLt(d.min, d.mean) /\ RLt(d.mean, d.max_or_90pct)

(***************************************************************************)
(* C4: for a SpacingDist with min < mean < max, a value returned by        *)
(* sample_spacing lies in [min, max] for trunc_exp, normal and uniform     *)
(* (the trunc_exp fallback after 10000 rejections included) and is at most *)
(* max_obs for lognormal with a max_obs given.                             *)
(***************************************************************************)
C4_SampleInRange ==
    (ss_pc = "returned" /\ ValidDist(ss_dist)) =>
        /\ ss_dist.type \in {"trunc_exp", "normal", "uniform"} =>
              RLe(ss_dist.min, ss_ret) /\ RLe(ss_ret, ss_dist.max_or_90pct)
        /\ (ss_dist.type = "lognormal" /\ ss_dist.max_obs.tag = "val") =>
              RLe(ss_ret, ss_dist.max_obs.v)

\* The trunc_exp fallback has returned for a valid distribution, at a value
\* strictly inside the interval.
C4_Witness ==
    /\ ss_pc = "returned" /\ ValidDist(ss_dist) /\ ss_dist.type = "trunc_exp"
    /\ ss_tries = TruncExpRetries
    /\ RLt(ss_dist.min, ss_ret)

(***************************************************************************)
(* C9: sample_spacing never blocks: whatever the type and the parameters   *)
(* (a lognormal max_obs of zero or below included), the call eventually    *)
(* ends, and a trunc_exp call has drawn at most 10000 rejected values plus *)
(* one fallback value when it returns.                                     *)
(***************************************************************************)
C9_NeverBlocks ==
    /\ <>(ss_pc \in {"returned", "raised_TypeError"})
    /\ [](ss_pc = "returned" /\ ss_dist.type = "trunc_exp"
            => ss_draws <= TruncExpRetries + 1)

(***************************************************************************)
(* C2: with n >= 1 and at least 3 joint sets supplied,                     *)
(* generate_primary_blocks returns, and returns exactly n blocks, each     *)
(* with V > 0 and Omega >= 1: the call neither raises nor stays in a       *)
(* sampling loop.                                                          *)
(***************************************************************************)
C2_ReturnsNBlocks ==
    (gp_pc # "idle" /\ gp_in.n >= 1 /\ Len(gp_in.joints) >= 3) =>
        /\ gp_pc \notin {"raised_ValueError", "raised_TypeError", "in_sample_spacing"}
        /\ gp_pc = "done" =>
              /\ Len(gp_blocks) = gp_in.n
              /\ \A i \in 1..Len(gp_blocks) :
                    RLt(Zero, gp_blocks[i].V) /\ RLe(One, gp_blocks[i].Omega)

(***************************************************************************)
(* C3: generate_primary_blocks raises the configuration error exactly when *)
(* the supplied joint sets plus the derived stress-fracture set (0 or 1)   *)
(* number fewer than 3; at the raise nothing has been drawn from r and no  *)
(* block exists; 2 supplied sets and one derived set do not raise.         *)
(***************************************************************************)
C3_ConfigError ==
    gp_pc \notin {"idle", "start"} =>
        LET supplied == Len(gp_in.joints)
            derived == Len(StressSets(gp_in.rock, gp_in.cave))
        IN  /\ derived \in {0, 1}
            /\ (gp_pc = "raised_ValueError") <=> (supplied + derived < 3)
            /\ gp_pc = "raised_ValueError" => ~gp_drawn /\ gp_blocks = <<>>
            /\ (supplied = 2 /\ derived = 1) => gp_pc # "raised_ValueError"

\* The error is raised for 2 supplied sets with stress fractures allowed but
\* none derived.
C3_Witness ==
    /\ gp_pc = "raised_ValueError"
    /\ Len(gp_in.joints) = 2
    /\ gp_in.cave.allow_stress_fractures
    /\ StressSets(gp_in.rock, gp_in.cave) = <<>>

(***************************************************************************)
(* C5: for a non-empty block collection, distributions_from_blocks puts    *)
(* every block in exactly one of the 20 bins (the per-bin counts sum to    *)
(* the collection size), the cumulative count and cumulative mass          *)
(* percentages do not decrease from bin to bin, and the last cumulative    *)
(* mass percentage is 100% (to within 0.0001 of a percentage point).       *)
(***************************************************************************)
C5_BinsPartition ==
    (db_pc = "done" /\ Len(db_blocks) >= 1) =>
        /\ SumInts(db_freq) = Len(db_blocks)
        /\ \A j \in 1..(NBins - 1) :
              /\ RLe(db_cum_freq[j], db_cum_freq[j + 1])
              /\ QLe(db_cum_mass[j], db_cum_mass[j + 1])
        /\ QLe(<<BNat(999999), BNat(10000)>>, db_cum_mass[NBins])
        /\ QLe(db_cum_mass[NBins], <<BNat(1000001), BNat(10000)>>)

(***************************************************************************)
(* C6: for one block list and one seed, a call of orepass_hangups with a   *)
(* bell width at least as large as another call's returns an n_high that   *)
(* is not greater.                                                         *)
(***************************************************************************)
C6_WidthMonotone ==
    \A c, d \in Calls :
        ( /\ oh_pc[c] = "done" /\ oh_pc[d] = "done"
          /\ oh_in[c].blocks = oh_in[d].blocks /\ oh_in[c].seed = oh_in[d].seed
          /\ RLe(oh_in[c].bell_width, oh_in[d].bell_width) )
        => oh_high[d] <= oh_high[c]

(***************************************************************************)
(* C7: for one block list and one seed, a call of kear_hangups with a bell *)
(* area at least as large as another call's returns an n_high that is not  *)
(* greater.                                                                *)
(***************************************************************************)
C7_AreaMonotone ==
    \A c, d \in Calls :
        ( /\ kh_pc[c] = "done" /\ kh_pc[d] = "done"
          /\ kh_in[c].blocks = kh_in[d].blocks /\ kh_in[c].seed = kh_in[d].seed
          /\ RLe(kh_in[c].bell_area, kh_in[d].bell_area) )
        => kh_high[d] <= kh_high[c]

\* Both calls have returned; the batch was high for the smaller bell area
\* and low for the larger.
C7_Witness ==
    /\ kh_pc[1] = "done" /\ kh_pc[2] = "done"
    /\ RLt(kh_in[1].bell_area, kh_in[2].bell_area)
    /\ kh_high[1] = 1 /\ kh_high[2] = 0 /\ kh_low[2] = 1

(***************************************************************************)
(* C8: two calls of orepass_hangups (of kear_hangups) with equal arguments *)
(* and equal seed that have returned have returned equal results, however  *)
(* their steps and the draws of the user interface were interleaved; and   *)
(* a step of one call changes neither the other call's variables and       *)
(* generator nor the module-level generator.                               *)
(***************************************************************************)
OhLocal(c) ==
    <<oh_pc[c], oh_widths[c], oh_i[c], oh_high[c], oh_low[c], oh_tons[c]>>
KhLocal(c) ==
    <<kh_pc[c], kh_i[c], kh_batch[c], kh_high[c], kh_low[c], kh_tons[c]>>
EqualResults ==
    \A c, d \in Calls :
        /\ (oh_pc[c] = "done" /\ oh_pc[d] = "done" /\ oh_in[c] = oh_in[d])
              => /\ oh_high[c] = oh_high[d] /\ oh_low[c] = oh_low[d]
                 /\ oh_tons[c] = oh_tons[d]
        /\ (kh_pc[c] = "done" /\ kh_pc[d] = "done" /\ kh_in[c] = kh_in[d])
              => /\ kh_high[c] = kh_high[d] /\ kh_low[c] = kh_low[d]
                 /\ kh_tons[c] = kh_tons[d]
StepsApart ==
    \A c \in Calls :
        (OhLocal(c)' # OhLocal(c) \/ KhLocal(c)' # KhLocal(c))
            => /\ gen'[0] = gen[0]
               /\ \A d \in Calls \ {c} :
                     /\ gen'[d] = gen[d]
                     /\ OhLocal(d)' = OhLocal(d) /\ KhLocal(d)' = KhLocal(d)
C10_ConsumedOnce ==
    mc_pc # "idle" =>
        \A label \in DOMAIN mc_results :
            /\ Len(mc_results[label]) <= mc_in.runs
            /\ \A i, j \in 1..Len(mc_results[label]) :
                  i # j => mc_results[label][i] # mc_results[label][j]

(***************************************************************************)
(* C11: a lognormal distribution whose max_obs is not supplied (no such    *)
(* key, or the field left at None) is sampled with the cap 3 x max: the    *)
(* call does not raise and what it returns is at most 3 x max.             *)
(***************************************************************************)
C11_DefaultCap ==
    ( /\ ss_pc # "idle" /\ ss_dist.type = "lognormal"
      /\ ss_dist.max_obs.tag \in {"absent", "None"} )
    => /\ ss_pc # "raised_TypeError"
       /\ ss_pc = "returned" => RLe(ss_ret, RMul(RInt(3), ss_hi))

(***************************************************************************)
(* C13: every value sample_spacing returns is strictly positive.           *)
(***************************************************************************)
C13_Positive == ss_pc = "returned" => RLt(Zero, ss_ret)

(***************************************************************************)
(* C14: the triple sample_spacing dispatches on satisfies min < mean < max;*)
(* max is min*1.05 or min+1e-3 when the given max <= min, mean is          *)
(* min + 0.35*(max - min) when the given mean was not strictly inside, and *)
(* a triple given with min < mean < max is used as given; no call raises   *)
(* on its parameters.                                                      *)
(***************************************************************************)
C14_Normalised ==
    ss_pc # "idle" =>
        LET lo == ss_dist.min
            m == ss_dist.mean
            hi == ss_dist.max_or_90pct
        IN  /\ RLt(ss_lo, ss_m) /\ RLt(ss_m, ss_hi)
            /\ ss_lo = lo
            /\ RLe(hi, lo) =>
                  ss_hi \in {RMul(lo, Rat(105, 100)), RAdd(lo, Rat(1, 1000))}
            /\ RLt(lo, hi) => ss_hi = hi
            /\ ~(RLt(ss_lo, m) /\ RLt(m, ss_hi)) =>
                  ss_m = RAdd(ss_lo, RMul(Rat(35, 100), RSub(ss_hi, ss_lo)))
            /\ (RLt(lo, m) /\ RLt(m, hi)) => (ss_m = m /\ ss_hi = hi)
            /\ ss_pc = "raised_TypeError" => ss_dist.max_obs.tag = "None"

\* A call given max <= min and a mean outside has returned.
C14_Witness ==
    /\ ss_pc = "returned"
    /\ RLe(ss_dist.max_or_90pct, ss_dist.min)
    /\ ss_m # ss_dist.mean /\ ss_hi # ss_dist.max_or_90pct

(***************************************************************************)
(* C12: with three joint sets whose spacing is min = mean = max = 1.0,     *)
(* generate_primary_blocks(1, ...) returns one block with Omega = 1 and V  *)
(* within a quarter of 1.0.                                                *)
(***************************************************************************)
UnitSpacing(sp) == sp.min = One /\ sp.mean = One /\ sp.max_or_90pct = One
C12_UnitBlock ==
    ( /\ gp_pc = "done" /\ gp_in.n = 1 /\ Len(gp_in.joints) = 3
      /\ \A i \in 1..3 : UnitSpacing(gp_in.joints[i].spacing)
      /\ ~gp_in.cave.allow_stress_fractures )
    => /\ Len(gp_blocks) = 1
       /\ gp_blocks[1].Omega = One
       /\ RLe(Rat(3, 4), gp_blocks[1].V) /\ RLe(gp_blocks[1].V, Rat(5, 4))

(***************************************************************************)
(* C18: the Omega of a block is that of the sorted triple of sampled       *)
(* dimensions, before any extension; V, A and lambda_max are those of the  *)
(* dimensions after the extensions.                                        *)
(***************************************************************************)
C18_OmegaBeforeExtension ==
    (gp_pc \in {"for", "done"} /\ gp_blocks # <<>>) =>
        LET blk == gp_blocks[Len(gp_blocks)]
            a == gp_dims[1]
            b == gp_dims[2]
            c == gp_dims[3]
        IN  /\ blk.Omega = omega_from_dims(gp_dims0[1], gp_dims0[2], gp_dims0[3])
            /\ blk.V = RMax(Rat(1, 1000000), RMul(a, RMul(b, c)))
            /\ blk.A = RMul(RInt(2), RAdd(RMul(a, b), RAdd(RMul(b, c), RMul(c, a))))
            /\ blk.lambda_max = RMax(a, RMax(b, c))

(***************************************************************************)
(* C15: the closed file holds, in this order, one line per block (5 fields *)
(* for write_prm, 3 for write_sec), the terminator '-1.0 -1.0 0', the      *)
(* summary line with mode flag 0 (write_prm) or 1 (write_sec), the cave    *)
(* line, the stats line whose fourth field is 0.0 (write_prm) or the given *)
(* ratio (write_sec), and for each of the 20 bins in ascending order the 7 *)
(* lines count, mass, cum_freq, cum_mass, linear_cum_mass, cum_freq,       *)
(* cum_mass: n + 144 lines.                                                *)
(***************************************************************************)
BinLineKinds ==
    <<"freq_counts", "mass_counts", "cum_freq", "cum_mass", "linear_cum_mass",
      "cum_freq", "cum_mass">>
C15_LineOrder ==
    wr_pc = "closed" =>
        LET n == wr_in.n
            prm == wr_fn = "write_prm"
        IN  /\ Len(wr_lines) = n + 144
            /\ \A k \in 1..n :
                  /\ wr_lines[k].kind = "block" /\ wr_lines[k].of = k
                  /\ Len(wr_lines[k].fields) = IF prm THEN 5 ELSE 3
                  /\ SubSeq(wr_lines[k].fields, 1, 3) = <<"V", "Omega", "joints_inside">>
            /\ wr_lines[n + 1].kind = "terminator"
            /\ wr_lines[n + 1].fields = <<"-1.0", "-1.0", "0">>
            /\ wr_lines[n + 2].kind = "summary"
            /\ wr_lines[n + 2].fields[3] = IF prm THEN "0" ELSE "1"
            /\ wr_lines[n + 3].kind = "cave"
            /\ wr_lines[n + 4].kind = "stats"
            /\ IF prm THEN wr_lines[n + 4].fields[4] = "0.0"
               ELSE /\ wr_lines[n + 4].fields[4] = "ratio_from_first_file"
                    /\ wr_lines[n + 4].val = wr_in.ratio
            /\ \A j \in 0..139 :
                  /\ wr_lines[n + 5 + j].kind = BinLineKinds[(j % 7) + 1]
                  /\ wr_lines[n + 5 + j].of = j \div 7

\* write_sec has closed a file of blocks with a ratio of its caller.
C15_Witness ==
    /\ wr_pc = "closed" /\ wr_fn = "write_sec"
    /\ wr_in.n = 2 /\ wr_in.ratio = Half /\ Len(wr_lines) = 146

(***************************************************************************)
(* C16: IRS_to_IRSR returns the rating of the first of the 11 descending   *)
(* thresholds that IRS strictly exceeds, so that an IRS equal to a         *)
(* threshold gets the next lower rating and IRS = 130 gets 14; it returns  *)
(* 0 for IRS <= 0 and is non-decreasing in IRS.                            *)
(***************************************************************************)
ClaimedThresholds == <<185, 165, 145, 125, 104, 85, 65, 45, 25, 5, 0>>
ClaimedRatings == <<20, 18, 16, 14, 12, 10, 8, 6, 4, 2, 0>>
C16_StepFunction ==
    pf_fn = "IRS_to_IRSR" =>
      /\ \A c \in Calls : pf_pc[c] = "returned" =>
            LET x == pf_args[c][1]
            IN  /\ \A i \in 1..11 :
                      ( /\ RLt(RInt(ClaimedThresholds[i]), x)
                        /\ \A j \in 1..(i - 1) : RLe(x, RInt(ClaimedThresholds[j])) )
                      => pf_ret[c] = ClaimedRatings[i]
                /\ \A i \in 1..10 :
                      x = RInt(ClaimedThresholds[i]) => pf_ret[c] = ClaimedRatings[i + 1]
                /\ x = RInt(130) => pf_ret[c] = 14
                /\ RLe(x, Zero) => pf_ret[c] = 0
      /\ \A c, d \in Calls :
            ( /\ pf_pc[c] = "returned" /\ pf_pc[d] = "returned"
              /\ RLe(pf_args[c][1], pf_args[d][1]) ) => pf_ret[c] <= pf_ret[d]

\* IRS = 130 and an IRS equal to the threshold 125 have been rated.
C16_Witness ==
    /\ pf_fn = "IRS_to_IRSR" /\ pf_pc[1] = "returned" /\ pf_pc[2] = "returned"
    /\ pf_args[1][1] = RInt(125) /\ pf_ret[1] = 12
    /\ pf_args[2][1] = RInt(130) /\ pf_ret[2] = 14

(***************************************************************************)
(* C17: for IRS > 0, compute_IBS returns factor x IRS with factor in       *)
(* [0.32, 0.8], the factor being 0.8 when frac_freq = 0 (96.0 for IRS =    *)
(* 120, frac_freq = 0, frac_condition = 20); the result is never below     *)
(* 0.05 x IRS.                                                             *)
(***************************************************************************)
C17_FactorRange ==
    pf_fn = "compute_IBS" =>
        \A c \in Calls : pf_pc[c] = "returned" =>
            LET irs == pf_args[c][1]
                ff == pf_args[c][2]
                fc == pf_args[c][3]
            IN  /\ RLe(RMul(Rat(32, 100), irs), pf_ret[c])
                /\ RLe(pf_ret[c], RMul(Rat(8, 10), irs))
                /\ ff = Zero => pf_ret[c] = RMul(Rat(8, 10), irs)
                /\ (irs = RInt(120) /\ ff = Zero /\ fc = 20) => pf_ret[c] = RInt(96)
                /\ RLe(RMul(Rat(5, 100), irs), pf_ret[c])

\* The scenario's call returned 96 and a call with the highest severity
\* returned 0.32 x IRS.
C17_Witness ==
    /\ pf_fn = "compute_IBS" /\ pf_pc[1] = "returned" /\ pf_pc[2] = "returned"
    /\ pf_args[1] = <<RInt(120), Zero, 20>> /\ pf_ret[1] = RInt(96)
    /\ pf_args[2] = <<RInt(120), RInt(20), -5>>
    /\ pf_ret[2] = RMul(Rat(32, 100), RInt(120))

(***************************************************************************)
(* C19: split_prob_from_Omega returns a value in [0, 1], non-decreasing in *)
(* Omega for each table; it is 1.0 for every Omega >= 5 with joints and    *)
(* for every Omega >= 10 without joints.                                   *)
(***************************************************************************)
C19_Saturates ==
    pf_fn = "split_prob_from_Omega" =>
      /\ \A c \in Calls : pf_pc[c] = "returned" =>
            /\ RLe(Zero, pf_ret[c]) /\ RLe(pf_ret[c], One)
            /\ (pf_args[c][2] /\ RLe(RInt(5), pf_args[c][1])) => pf_ret[c] = One
            /\ (~pf_args[c][2] /\ RLe(RInt(10), pf_args[c][1])) => pf_ret[c] = One
      /\ \A c, d \in Calls :
            ( /\ pf_pc[c] = "returned" /\ pf_pc[d] = "returned"
              /\ pf_args[c][2] = pf_args[d][2]
              /\ RLe(pf_args[c][1], pf_args[d][1]) ) => RLe(pf_ret[c], pf_ret[d])

(***************************************************************************)
(* C20: the pressure fraction of cave_pressure_MPa for ratio = width / Hc  *)
(* is 0.44, 0.30, 0.23, 0.20, 0.18 at the ratios 1, 1/2, 1/3, 1/4, 1/5,    *)
(* linear between neighbouring ratios, 0.44 for ratio >= 1 and 0.18 for    *)
(* ratio <= 1/5, and so non-decreasing in the ratio.                       *)
(***************************************************************************)
ClaimedRatios == <<Rat(1, 5), Rat(1, 4), Rat(1, 3), Half, One>>
ClaimedFractions ==
    <<Rat(18, 100), Rat(20, 100), Rat(23, 100), Rat(30, 100), Rat(44, 100)>>
ClaimedFraction(ratio) ==
    IF RLe(One, ratio) THEN Rat(44, 100)
    ELSE IF RLe(ratio, Rat(1, 5)) THEN Rat(18, 100)
    ELSE LET i == CHOOSE k \in 1..4 :
                    RLe(ClaimedRatios[k], ratio) /\ RLt(ratio, ClaimedRatios[k + 1])
             t == RDiv(RSub(ratio, ClaimedRatios[i]),
                       RSub(ClaimedRatios[i + 1], ClaimedRatios[i]))
         IN  RAdd(ClaimedFractions[i],
                  RMul(t, RSub(ClaimedFractions[i + 1], ClaimedFractions[i])))
C20_FractionTable ==
    pf_fn = "cave_pressure_MPa" =>
      /\ \A c \in Calls :
            (pf_pc[c] = "returned" /\ RLt(Zero, pf_args[c][2])) =>
                pf_ret[c].frac = ClaimedFraction(RDiv(pf_args[c][3], pf_args[c][2]))
      /\ \A c, d \in Calls :
            ( /\ pf_pc[c] = "returned" /\ pf_pc[d] = "returned"
              /\ RLt(Zero, pf_args[c][2]) /\ RLt(Zero, pf_args[d][2])
              /\ RLe(RDiv(pf_args[c][3], pf_args[c][2]),
                     RDiv(pf_args[d][3], pf_args[d][2])) )
            => RLe(pf_ret[c].frac, pf_ret[d].frac)

(***************************************************************************)
(* The worklist of run_secondary under a scheduler that keeps the call     *)
(* running: one primary block at most, draw heights below, at and above 1. *)
(***************************************************************************)
DescentCfgs ==
    { SecCfg(Half, RInt(10), Zero, Rat(12, 100)),
      SecCfg(One, RInt(35), RInt(20), Half),
      SecCfg(Rat(5, 2), RInt(35), RInt(20), Half) }

InitDescent ==
    /\ sec_pc = "worklist"
    /\ sec_prim \in SeqUpTo(PrimTypes, 1)
    /\ sec_cfg \in DescentCfgs
    /\ sec_i = 0 /\ sec_stack = <<>> /\ sec_out = <<>> /\ sec_fines = Zero
    /\ sec_sh = 0 /\ sec_nsplit = 0 /\ sec_ratio = <<>>
    /\ SsIdle /\ GpIdle /\ DbIdle /\ RngInit /\ OhIdle /\ KhIdle /\ McIdle /\ PfIdle /\ WrIdle

\* run_secondary can take a step exactly while it has not returned: one of
\* the guards of SecNextBlock, SecCycle, SecShuffleStart, SecShuffleSwap and
\* SecArching holds.
SecRunning == sec_pc # "done"
SecCanStep ==
    \/ sec_pc = "worklist" /\ sec_stack = <<>> /\ sec_i < Len(sec_prim)
    \/ sec_pc = "worklist" /\ sec_stack # <<>>
    \/ sec_pc = "worklist" /\ sec_stack = <<>> /\ sec_i = Len(sec_prim)
    \/ sec_pc = "shuffle" /\ sec_sh >= 2
    \/ sec_pc = "shuffle" /\ sec_sh < 2

\* Weak fairness of SecNext, WF_vars(SecNext), with ENABLED <<SecNext>>_vars
\* written as the state predicate SecRunning: the thread that called
\* run_secondary keeps executing it until it returns.
SecFair == []<>(~SecRunning) \/ []<><<SecNext>>_vars

FairSpecSecondary == InitDescent /\ [][SecNext]_vars /\ SecFair

\* The greatest H_cycle of the model.
MaxHCycle == RInt(3)

\* A cycle of the worklist: the popped entry is either emitted (one block,
\* or two after a split) or pushed back (one entry, or two) with a remaining
\* distance that is positive and at least 1 less than before.
CycleDescends ==
    (sec_pc = "worklist" /\ sec_stack # <<>> /\ sec_stack' # sec_stack) =>
        LET e == sec_stack[Len(sec_stack)]
            rest == SubSeq(sec_stack, 1, Len(sec_stack) - 1)
            pushed == SubSeq(sec_stack', Len(rest) + 1, Len(sec_stack'))
            emitted == Len(sec_out') - Len(sec_out)
        IN  /\ Len(sec_stack') >= Len(rest)
            /\ SubSeq(sec_stack', 1, Len(rest)) = rest
            /\ Len(pushed) \in 0..2 /\ emitted \in 0..2
            /\ (pushed = <<>>) <=> (emitted > 0)
            /\ \A k \in DOMAIN pushed :
                  /\ RLt(Zero, pushed[k].z)
                  /\ RLe(pushed[k].z, RSub(e.z, One))
            /\ RLe(e.z, One) => pushed = <<>>
            /\ RLt(MaxHCycle, e.z) => pushed # <<>>

\* An entry of the stack is the seed of its block or has been through at
\* least one cycle; with draw_height <= 1 nothing is ever pushed back.
StackBounded ==
    \A k \in DOMAIN sec_stack :
        /\ \/ sec_stack[k].z = sec_cfg.draw_height
           \/ RLe(sec_stack[k].z, RSub(sec_cfg.draw_height, One))
        /\ RLe(sec_cfg.draw_height, One) =>
              (Len(sec_stack) = 1 /\ sec_stack[k].z = sec_cfg.draw_height)

(***************************************************************************)
(* C21: the worklist of run_secondary always empties.  Every cycle takes   *)
(* H_cycle >= 1 from the remaining distance of the popped entry; the entry *)
(* is emitted exactly when the distance left is <= 0 and pushed back       *)
(* otherwise; so every block is finished after at most ceil(draw_height)   *)
(* generations (one cycle when draw_height <= 1) and run_secondary         *)
(* terminates whatever the random draws.                                   *)
(***************************************************************************)
C21_WorklistEmpties ==
    /\ [][CycleDescends]_vars
    /\ []StackBounded
    /\ [](SecRunning => SecCanStep)
    /\ <>(sec_pc = "done")

\* A block with draw_height 5/2 went through three generations, splitting
\* at least once, and the call returned.
C21_Witness ==
    /\ sec_pc = "done"
    /\ sec_cfg.draw_height = Rat(5, 2)
    /\ Len(sec_prim) = 1
    /\ Len(sec_out) - sec_nsplit >= 4

\* The (V, Omega, joints_inside) of a stack entry or of an output block.
PieceOf(x) == <<x.V, x.Omega, x.J>>

\* What a cycle of the worklist put on the stack or appended to out.
CyclePieces ==
    LET n == Len(sec_stack) - 1
    IN  [k \in 1..(Len(sec_stack') - n) |-> PieceOf(sec_stack'[n + k])]
        \o [k \in 1..(Len(sec_out') - Len(sec_out)) |->
                PieceOf(sec_out'[Len(sec_out) + k])]

(***************************************************************************)
(* C22: the split step of run_secondary.  A piece (V, Omega, J) that       *)
(* splits is replaced by exactly two children, each with volume            *)
(* V * (1 - f) / 2 where f = (mu_scatter_deg / 5 + 3) / 100, with Omega    *)
(* max(1, Omega / 2) and the same J, and the fines accumulator grows by    *)
(* exactly V * f; a piece that does not split keeps its V, Omega and J and *)
(* leaves the fines accumulator unchanged.                                 *)
(***************************************************************************)
C22_SplitStep ==
    [][ (sec_pc = "worklist" /\ sec_stack # <<>> /\ sec_stack' # sec_stack) =>
        LET e == sec_stack[Len(sec_stack)]
            f == RDiv(RAdd(RDiv(sec_cfg.mu_scatter_deg, RInt(5)), RInt(3)),
                      RInt(100))
            child == << RDiv(RMul(e.V, RSub(One, f)), RInt(2)),
                        RMax(One, RDiv(e.Omega, RInt(2))), e.J >>
        IN  \/ /\ CyclePieces = <<child, child>>
               /\ sec_fines' = RAdd(sec_fines, RMul(e.V, f))
            \/ /\ CyclePieces = <<PieceOf(e)>>
               /\ sec_fines' = sec_fines ]_vars

\* A returned run in which a piece split with its Omega floored at 1 and
\* another piece went through unsplit.
C22_Witness ==
    /\ sec_pc = "done"
    /\ RLt(Zero, sec_fines)
    /\ \E i \in DOMAIN sec_out : \E j \in DOMAIN sec_prim :
          /\ sec_out[i].Omega = One
          /\ RLt(sec_out[i].V, sec_prim[j].V)
          /\ RLt(One, sec_prim[j].Omega) /\ RLt(sec_prim[j].Omega, RInt(4))
    /\ sec_nsplit = 0
    /\ \E i \in DOMAIN sec_out : \E j \in DOMAIN sec_prim :
          PieceOf(sec_out[i]) = PieceOf(sec_prim[j])

\* Half of a block, as the claim on arching states it.
ClaimedHalf(b) ==
    SecondaryBlock(RDiv(b.V, RInt(2)), RMax(One, RDiv(b.Omega, RInt(2))), b.J)

(***************************************************************************)
(* C24: the arching post-process of run_secondary.  With c the number of   *)
(* output blocks with V > 2 after the shuffle, exactly                     *)
(* floor(arching_pct * c) of them, at most c, are each replaced by two     *)
(* blocks with half the volume, Omega max(1, Omega / 2) and the same       *)
(* joints_inside; the output grows by exactly that number of blocks and    *)
(* every other block, every block with V <= 2 included, is unchanged.      *)
(***************************************************************************)
C24_Arching ==
    [][ (sec_pc = "shuffle" /\ sec_pc' = "done") =>
        LET n == Len(sec_out)
            big == {i \in 1..n : RLt(RInt(2), sec_out[i].V)}
            c == Cardinality(big)
            x == RMul(sec_cfg.arching_pct, RInt(c))
            fl == x[1] \div x[2]
            k == IF fl > c THEN c ELSE fl
            added == [j \in 1..(Len(sec_out') - n) |-> sec_out'[n + j]]
        IN  /\ Len(sec_out') = n + k
            /\ \E S \in SUBSET big :
                  /\ Cardinality(S) = k
                  /\ \A i \in 1..n :
                        sec_out'[i] = IF i \in S THEN ClaimedHalf(sec_out[i])
                                      ELSE sec_out[i]
                  /\ \A b \in Range(added) :
                        Cardinality({j \in DOMAIN added : added[j] = b})
                        = Cardinality({i \in S : ClaimedHalf(sec_out[i]) = b})
                  /\ \A i \in S : ClaimedHalf(sec_out[i]) \in Range(added) ]_vars

\* A returned run in which arching split some candidate, left another
\* candidate whole and left a block with V <= 2 alone.
C24_Witness ==
    /\ sec_pc = "done"
    /\ sec_nsplit >= 1
    /\ sec_cfg.arching_pct = Half
    /\ \E i \in 1..(Len(sec_out) - sec_nsplit) : RLt(RInt(2), sec_out[i].V)
    /\ \E i \in DOMAIN sec_out :
          \E j \in DOMAIN sec_prim :
              /\ RLe(sec_out[i].V, RInt(2))
              /\ PieceOf(sec_out[i]) = PieceOf(sec_prim[j])

(***************************************************************************)
(* orepass_hangups on lists long enough for arches of 1 to 6 blocks, under *)
(* a scheduler that keeps every call running.                              *)
(***************************************************************************)
MaxArchBlocks == 7
ArchWidths == {RInt(3), RInt(4), RInt(6)}
ArchLists ==
    SeqUpTo(HangBlocks, 2)
    \cup {Repeat(SecondaryBlock(One, One, 0), MaxArchBlocks)}

ArchInit ==
    /\ \E blocks \in ArchLists, sd \in Seeds, w1 \in ArchWidths, w2 \in ArchWidths :
          /\ RLt(w1, w2)
          /\ oh_in = [c \in Calls |-> OhCall(blocks, IF c = 1 THEN w1 ELSE w2, sd)]
    /\ oh_pc = [c \in Calls |-> "start"]
    /\ oh_widths = [c \in Calls |-> <<>>] /\ oh_i = [c \in Calls |-> 0]
    /\ oh_high = [c \in Calls |-> 0] /\ oh_low = [c \in Calls |-> 0]
    /\ oh_tons = [c \in Calls |-> Zero]

InitArches ==
    /\ ArchInit
    /\ RngInit /\ SecIdle /\ SsIdle /\ GpIdle /\ DbIdle /\ KhIdle /\ McIdle /\ PfIdle /\ WrIdle

\* A step of call c of orepass_hangups.
OhStep(c) == OhStart(c) \/ OhWidth(c) \/ OhArch(c) \/ OhReturn(c)

\* Weak fairness of the steps of call c, WF_vars(OhStep(c)), with
\* ENABLED <<OhStep(c)>>_vars written as the state predicate
\* oh_pc[c] # "done": the thread that called orepass_hangups keeps executing
\* it until it returns.
OhFair(c) == []<>(oh_pc[c] = "done") \/ []<><<OhStep(c)>>_vars

FairSpecOrepass ==
    InitArches /\ [][OhNext]_vars /\ OhFair(1) /\ OhFair(2)

\* An iteration of the outer while loop of call c: i moves on.
ArchStep(c) == oh_pc[c] = "widths" /\ oh_i'[c] # oh_i[c]

\* The blocks the iteration took, the overflow block included.
Taken(c) == [j \in 1..(oh_i'[c] - oh_i[c]) |-> oh_i[c] + j]

\* Whether the widths of the blocks taken exceed the bell width.
Overflowed(c) ==
    RLt(oh_in[c].bell_width,
        RSum([j \in DOMAIN Taken(c) |-> oh_widths[c][Taken(c)[j]]]))

\* The arch: the blocks taken without the overflow block.
ArchOf(c) == SubSeq(Taken(c), 1, Len(Taken(c)) - 1)
ArchSpan(c) == RSum([j \in DOMAIN ArchOf(c) |-> oh_widths[c][ArchOf(c)[j]]])
ArchMass(c) == RSum([j \in DOMAIN ArchOf(c) |-> oh_in[c].blocks[ArchOf(c)[j]].V])
SpansBell(c) ==
    Overflowed(c) /\ RLe(RMul(Rat(80, 100), oh_in[c].bell_width), ArchSpan(c))

\* Whether the iteration counted a hang-up event.
Counted(c) == oh_high'[c] + oh_low'[c] > oh_high[c] + oh_low[c]

(***************************************************************************)
(* C23: the width-based hang-up rule.  orepass_hangups counts an event     *)
(* only for an arch whose blocks, the overflow block excluded, span at     *)
(* least 80% of the bell width; an arch of fewer than 3 blocks that does   *)
(* is always counted and an arch of 6 or more blocks never is; a counted   *)
(* event is high when the arch has at most 3 blocks and low otherwise; and *)
(* total_hangup_tons grows by the sum of V over the blocks of the counted  *)
(* arch.                                                                   *)
(***************************************************************************)
C23_WidthRule ==
    [][ \A c \in Calls : ArchStep(c) =>
          LET cnt == Len(ArchOf(c))
          IN  /\ Counted(c) => SpansBell(c)
              /\ (SpansBell(c) /\ cnt < 3) => Counted(c)
              /\ cnt >= 6 => ~Counted(c)
              /\ Counted(c) =>
                    /\ oh_high'[c] = oh_high[c] + (IF cnt <= 3 THEN 1 ELSE 0)
                    /\ oh_low'[c] = oh_low[c] + (IF cnt <= 3 THEN 0 ELSE 1)
                    /\ oh_tons'[c] = RAdd(oh_tons[c], ArchMass(c))
              /\ ~Counted(c) =>
                    /\ oh_high'[c] = oh_high[c] /\ oh_low'[c] = oh_low[c]
                    /\ oh_tons'[c] = oh_tons[c] ]_vars

\* Both calls returned: the first counted an arch of 3 blocks as high, the
\* second an arch of 4 blocks as low.
C23_Witness ==
    /\ \A c \in Calls : oh_pc[c] = "done"
    /\ Len(oh_in[1].blocks) = MaxArchBlocks
    /\ oh_in[1].bell_width = RInt(3) /\ oh_in[2].bell_width = RInt(4)
    /\ oh_high[1] = 1 /\ oh_low[1] = 0 /\ oh_tons[1] = RInt(3)
    /\ oh_high[2] = 0 /\ oh_low[2] = 1 /\ oh_tons[2] = RInt(4)

\* Sum of the widths of all blocks of call c, once they are computed.
AllWidths(c) == RSum(oh_widths[c])

(***************************************************************************)
(* C30: bounded hang-up accounting in orepass_hangups, for a bell width    *)
(* > 0.  Every iteration of the outer loop consumes at least one block and *)
(* the call terminates; the arches are disjoint and a counted event has at *)
(* least one block, so n_high + n_low <= number of blocks and              *)
(* total_hangup_tons <= sum of all block volumes; an empty list, or a list *)
(* whose summed widths do not exceed the bell width, returns 0, 0 and 0.0. *)
(***************************************************************************)
C30_BoundedAccounting ==
    /\ [][ \A c \in Calls :
             /\ (oh_pc[c] = "widths" /\ oh_pc'[c] = "widths"
                 /\ Len(oh_widths[c]) = Len(oh_in[c].blocks)
                 /\ <<oh_i[c], oh_high[c], oh_low[c], oh_tons[c]>>
                    # <<oh_i'[c], oh_high'[c], oh_low'[c], oh_tons'[c]>>)
                => oh_i'[c] > oh_i[c]
             /\ ArchStep(c) =>
                  /\ oh_i'[c] > oh_i[c] /\ oh_i'[c] <= Len(oh_in[c].blocks)
                  /\ Counted(c) => Len(ArchOf(c)) >= 1 ]_vars
    /\ [](\A c \in Calls :
             /\ RLt(Zero, oh_in[c].bell_width)
             /\ oh_high[c] + oh_low[c] <= oh_i[c]
             /\ oh_high[c] + oh_low[c] <= Len(oh_in[c].blocks)
             /\ RLe(oh_tons[c], MassOf(SubSeq(oh_in[c].blocks, 1, oh_i[c])))
             /\ RLe(oh_tons[c], MassOf(oh_in[c].blocks))
             /\ (oh_pc[c] = "done"
                 /\ (oh_in[c].blocks = <<>>
                     \/ RLe(AllWidths(c), oh_in[c].bell_width)))
                => (oh_high[c] = 0 /\ oh_low[c] = 0 /\ oh_tons[c] = Zero))
    /\ <>(\A c \in Calls : oh_pc[c] = "done")

\* Both calls returned: one on a list whose widths never exceed the bell
\* width, after a call on the same list that counted an event.
C30_Witness ==
    /\ \A c \in Calls : oh_pc[c] = "done"
    /\ oh_in[1].blocks # <<>>
    /\ oh_high[1] + oh_low[1] >= 1
    /\ RLt(Zero, oh_tons[1])
    /\ RLe(AllWidths(2), oh_in[2].bell_width)
    /\ oh_high[2] = 0 /\ oh_low[2] = 0 /\ oh_tons[2] = Zero

\* The footprint area and the volume of block j of call c, and their sums
\* over the k-th group of 25 consecutive blocks.
Footprint(b) ==
    LET wl == estimate_block_width_length(b.V, b.Omega)
    IN  RMul(wl[1], wl[2])
GroupArea(c, k) ==
    RSumRange([j \in 1..25 |-> Footprint(kh_in[c].blocks[25 * (k - 1) + j])], 1, 25)
GroupMass(c, k) ==
    RSumRange([j \in 1..25 |-> kh_in[c].blocks[25 * (k - 1) + j].V], 1, 25)
HighGroups(c) ==
    {k \in 1..(Len(kh_in[c].blocks) \div 25) :
        RLe(RMul(Rat(40, 100), kh_in[c].bell_area), GroupArea(c, k))}
RECURSIVE SumOverGroups(_, _)
SumOverGroups(c, G) ==
    IF G = {} THEN Zero
    ELSE LET k == CHOOSE x \in G : TRUE
         IN  CHOOSE t \in {RAdd(a, b) : a \in {GroupMass(c, k)},
                                        b \in {SumOverGroups(c, G \ {k})}} : TRUE

(***************************************************************************)
(* C27: area-based batching.  For a list of n blocks kear_hangups          *)
(* classifies exactly floor(n / 25) batches of 25 consecutive blocks, so   *)
(* n_high + n_low = floor(n / 25) and a trailing group of fewer than 25    *)
(* blocks adds to neither count nor to the mass; a batch is high exactly   *)
(* when its summed footprint area is >= 40% of bell_area; and              *)
(* total_hangup_tons is the sum of V over the blocks of the high batches.  *)
(***************************************************************************)
C27_Batching ==
    \A c \in Calls :
        kh_pc[c] = "done" =>
            LET n == Len(kh_in[c].blocks)
            IN  /\ kh_high[c] + kh_low[c] = n \div 25
                /\ kh_high[c] = Cardinality(HighGroups(c))
                /\ kh_tons[c] = SumOverGroups(c, HighGroups(c))
                /\ Len(kh_batch[c]) = n % 25

\* Both calls returned on a list of two batches and one trailing block:
\* both batches high for the smaller bell area, both low for the larger.
C27_Witness ==
    /\ kh_pc[1] = "done" /\ kh_pc[2] = "done"
    /\ Len(kh_in[1].blocks) = 51
    /\ kh_high[1] = 2 /\ kh_low[1] = 0 /\ RLt(Zero, kh_tons[1])
    /\ kh_high[2] = 0 /\ kh_low[2] = 2 /\ kh_tons[2] = Zero

(***************************************************************************)
(* C29: joint/dimension pairing in generate_primary_blocks.  For each of   *)
(* the three dimensions of a block, the joint set whose JC decides whether *)
(* the joint cuts and whose spacing supplies the extension is the set the  *)
(* dimension was sampled from; the extension of a non-cutting joint is     *)
(* added to that same dimension, equal dimensions included, and            *)
(* joints_inside grows by one, so that it ends in 0..3 and equals the      *)
(* number of extensions applied.                                           *)
(***************************************************************************)
C29_Pairing ==
    /\ (gp_pc = "joint" /\ gp_k \in 1..3) => gp_perm[gp_k] = gp_k
    /\ \A e \in Range(gp_log) : e.pos = e.k
    /\ gp_pc = "joint" => (gp_ji = Len(gp_log) /\ gp_ji \in 0..3)
    /\ \A i \in DOMAIN gp_blocks : gp_blocks[i].joints_inside \in 0..3

InitStress ==
    /\ StressInit
    /\ RngInit /\ SecIdle /\ SsIdle /\ GpIdle /\ DbIdle /\ OhIdle /\ KhIdle /\ McIdle /\ WrIdle
StressNext == \E c \in Calls : StressCall(c)
SpecStress == InitStress /\ [][StressNext]_vars

\* The IBS of a rock mass and the ratio F = max cave stress / IBS of a call.
IbsOf(rock) ==
    IF rock.IBS.tag = "val" THEN rock.IBS.v
    ELSE compute_IBS(rock.IRS, rock.frac_freq, rock.frac_condition)
Sigma1Of(cave) ==
    RMax(cave.stress_dip, RMax(cave.stress_strike, cave.stress_normal))
RatioDefined(c) == IbsOf(pf_args[c][1]) # Zero
RatioF(c) == RDiv(Sigma1Of(pf_args[c][2]), IbsOf(pf_args[c][1]))

\* The table interpolated linearly at F: on a segment of the table that
\* holds F, the chord of the segment; below the first point, its spacing.
IsInterpolation(F, s) ==
    \/ RLt(F, StressTable[1][1]) /\ s = StressTable[1][2]
    \/ \E i \in 1..(Len(StressTable) - 1) :
          LET f0 == StressTable[i][1]
              f1 == StressTable[i + 1][1]
              s0 == StressTable[i][2]
              s1 == StressTable[i + 1][2]
          IN  /\ RLe(f0, F) /\ RLe(F, f1)
              /\ RMul(RSub(s, s0), RSub(f1, f0)) = RMul(RSub(s1, s0), RSub(F, f0))

(***************************************************************************)
(* C26: stress-fracture set derivation.  With allow_stress_fractures       *)
(* enabled and F = max(stress_dip, stress_strike, stress_normal) / IBS,    *)
(* exactly one extra joint set is added when 0 < F < 2, and none when      *)
(* F <= 0 or F >= 2 or when the flag is disabled; the mean spacing of the  *)
(* added set is the linear interpolation of the 10-point (F, spacing)      *)
(* table at F, lies in [0.01, 10.0] and is non-decreasing in F.            *)
(***************************************************************************)
C26_StressSet ==
    /\ \A c \in Calls :
          (pf_pc[c] = "returned" /\ RatioDefined(c)) =>
              LET F == RatioF(c)
                  allow == pf_args[c][2].allow_stress_fractures
                  sets == pf_ret[c]
              IN  /\ (allow /\ RLt(Zero, F) /\ RLt(F, RInt(2))) => Len(sets) = 1
                  /\ (~allow \/ RLe(F, Zero) \/ RLe(RInt(2), F)) => sets = <<>>
                  /\ Len(sets) = 1 =>
                        /\ IsInterpolation(F, sets[1].spacing.mean)
                        /\ RLe(Rat(1, 100), sets[1].spacing.mean)
                        /\ RLe(sets[1].spacing.mean, RInt(10))
    /\ \A c, d \in Calls :
          ( /\ pf_pc[c] = "returned" /\ pf_pc[d] = "returned"
            /\ Len(pf_ret[c]) = 1 /\ Len(pf_ret[d]) = 1
            /\ RLe(RatioF(c), RatioF(d)) )
          => RLe(pf_ret[c][1].spacing.mean, pf_ret[d][1].spacing.mean)

\* Both calls returned: one added a set with a spacing strictly between two
\* table points, the other added none because F >= 2.
C26_Witness ==
    /\ pf_pc[1] = "returned" /\ pf_pc[2] = "returned"
    /\ RatioDefined(1) /\ RatioF(1) = Rat(135, 100)
    /\ Len(pf_ret[1]) = 1 /\ pf_ret[1][1].spacing.mean = Rat(75, 100)
    /\ RatioDefined(2) /\ RLe(RInt(2), RatioF(2))
    /\ pf_args[2][2].allow_stress_fractures /\ pf_ret[2] = <<>>

\* An iteration of the padding loop that draws an index not yet in idxs.
GpPadNew == GpPad /\ Len(gp_idxs') > Len(gp_idxs)

\* A fair random source: r.randrange, called again and again, eventually
\* returns an index that idxs does not hold.
FairSpecSelection == InitPrimary /\ [][GpNext]_vars /\ SF_vars(GpPadNew)

(***************************************************************************)
(* C25: joint-set selection per block.  Whenever at least 3 joint sets are *)
(* available, the three indices used for a block are pairwise distinct and *)
(* within range, and the retry/padding loop that completes them exits      *)
(* after finitely many draws under a fair random source.                   *)
(***************************************************************************)
C25_Selection ==
    /\ [](gp_pc \in {"dims", "joint"} =>
            /\ Len(gp_sets) >= 3
            /\ Len(gp_idxs) = 3
            /\ \A i \in 1..3 : gp_idxs[i] \in 0..(Len(gp_sets) - 1)
            /\ \A i, j \in 1..3 : i # j => gp_idxs[i] # gp_idxs[j])
    /\ [](gp_pc = "pad" => Len(gp_sets) >= 3 /\ Len(gp_idxs) < 3)
    /\ (gp_pc = "pad") ~> (gp_pc = "dims")

\* The indices of the first block are complete after r.choices and two
\* draws (or five, ...) of the padding loop.
C25_Witness ==
    /\ gp_pc = "dims" /\ gp_blocks = <<>> /\ gp_rng = 0 /\ gp_drawn
    /\ Len(gp_idxs) = 3

====
